---- MODULE Spec2Model ----
(***************************************************************************)
(* A model of bin/openclaw-templates.js: the agent registry derived from   *)
(* openclaw.json, the build target selector and the build command that     *)
(* renders per-agent template trees into workspace directories.            *)
(*                                                                         *)
(* Strings are sequences of tokens.  The token "/" is the path separator,  *)
(* "\\" a backslash and " " white space; every other token is an atomic    *)
(* run of ordinary characters.  A path segment (a file name) is a          *)
(* non-empty sequence of tokens other than "/".  A filesystem path is the  *)
(* sequence of the segments below the root directory.                      *)
(***************************************************************************)
EXTENDS Integers, Sequences, FiniteSets, TLC

----------------------------------------------------------------------------
(* Strings                                                                 *)

Sep == "/"
Bsl == "\\"
Spc == " "

Range(s) == {s[i] : i \in 1..Len(s)}

Last(s) == s[Len(s)]

Front(s) == SubSeq(s, 1, Len(s) - 1)

\* An optional string: a value that is a string (has) or anything else.
Str(s) == [has |-> TRUE, s |-> s]
NoStr == [has |-> FALSE, s |-> <<>>]

\* String.prototype.trim: white space removed at both ends.
RECURSIVE TrimLeft(_)
TrimLeft(s) ==
  IF s # <<>> /\ Head(s) = Spc THEN TrimLeft(Tail(s)) ELSE s

RECURSIVE TrimRight(_)
TrimRight(s) ==
  IF s # <<>> /\ Last(s) = Spc THEN TrimRight(Front(s)) ELSE s

Trim(s) == TrimLeft(TrimRight(s))

\* The tokens whose text ends in ".md".
MdTokens == {"X.md", "P.md", "h.md", "AGENTS.md"}

\* relativePath.endsWith('.md')
EndsWithMd(s) == s # <<>> /\ Last(s) \in MdTokens

\* The tokens whose text begins with ".".
DotTokens == {".", "..", ".git", ".includes", "..cache"}

\* The tokens whose text begins with "..".
DotDotTokens == {"..", "..cache"}

\* path.isAbsolute (POSIX): the string begins with the separator.
IsAbsolute(s) == s # <<>> /\ Head(s) = Sep

\* The segments of a string: split at every separator, empty pieces dropped.
RECURSIVE SplitSegs(_, _, _)
SplitSegs(s, cur, acc) ==
  IF s = <<>> THEN (IF cur = <<>> THEN acc ELSE Append(acc, cur))
  ELSE IF Head(s) = Sep
       THEN SplitSegs(Tail(s), <<>>, IF cur = <<>> THEN acc ELSE Append(acc, cur))
       ELSE SplitSegs(Tail(s), Append(cur, Head(s)), acc)

Segments(s) == SplitSegs(s, <<>>, <<>>)

Dot == <<".">>
DotDot == <<"..">>

\* The lexical resolution of "." and ".." segments below a root (POSIX
\* path.normalize of an absolute path: ".." at the root stays at the root).
RECURSIVE NormSegs(_, _)
NormSegs(segs, acc) ==
  IF segs = <<>> THEN acc
  ELSE IF Head(segs) = Dot THEN NormSegs(Tail(segs), acc)
  ELSE IF Head(segs) = DotDot
       THEN NormSegs(Tail(segs), IF acc = <<>> THEN acc ELSE Front(acc))
       ELSE NormSegs(Tail(segs), Append(acc, Head(segs)))

\* The filesystem path an absolute path string names.
Canon(s) == NormSegs(Segments(s), <<>>)

\* The string of a filesystem path: "/" seg "/" seg ... ("/" for the root).
RECURSIVE JoinSegs(_)
JoinSegs(p) ==
  IF p = <<>> THEN <<>> ELSE <<Sep>> \o Head(p) \o JoinSegs(Tail(p))

PathStr(p) == IF p = <<>> THEN <<Sep>> ELSE JoinSegs(p)

\* path.join(a, b) of two strings, before normalisation: a + "/" + b.
Joined(a, b) ==
  IF a = <<>> THEN b ELSE IF b = <<>> THEN a ELSE a \o <<Sep>> \o b

\* path.resolve(path.join(base, rel)) for an absolute base.
ResolveJoin(base, rel) == PathStr(Canon(Joined(base, rel)))

IsPrefix(p, q) == Len(p) <= Len(q) /\ SubSeq(q, 1, Len(p)) = p

----------------------------------------------------------------------------
(* The filesystem: a function from the paths that exist to their nodes.    *)
(* A node is a directory or a regular file with its content.  The content  *)
(* of a file is a sequence of lines; a line is a piece of text or an       *)
(* active include tag naming a path relative to the compile directory.     *)

DirNode == [kind |-> "dir", data |-> <<>>]
FileNode(data) == [kind |-> "file", data |-> data]

Txt(t) == [k |-> "txt", v |-> <<t>>]
Inc(path) == [k |-> "inc", v |-> path]

\* fs.existsSync
Exists(f, p) == p \in DOMAIN f

\* fs.statSync(p).isDirectory()
IsDir(f, p) == p \in DOMAIN f /\ f[p].kind = "dir"

IsFile(f, p) == p \in DOMAIN f /\ f[p].kind = "file"

Prefixes(p) == {SubSeq(p, 1, i) : i \in 0..Len(p)}

\* fs.mkdirSync(p, {recursive: true}) throws when a component is a file.
MkdirOk(f, p) == \A q \in Prefixes(p) : q \in DOMAIN f => f[q].kind = "dir"

Mkdirp(f, p) == f @@ [q \in Prefixes(p) |-> DirNode]

\* fs.writeFileSync / the destination side of fs.copyFileSync: the parent
\* must be a directory and the path itself must not be one.
WriteOk(f, p) == p # <<>> /\ IsDir(f, Front(p)) /\ ~IsDir(f, p)

WriteFile(f, p, data) == (p :> FileNode(data)) @@ f

\* fs.rmSync(p, {recursive: true, force: true}): p and all below it.
RmRf(f, p) == [q \in {r \in DOMAIN f : ~IsPrefix(p, r)} |-> f[q]] @@ << >>

\* fs.readdirSync(dir): the names of the direct children.
Readdir(f, dir) ==
  {Last(q) : q \in {r \in DOMAIN f : Len(r) = Len(dir) + 1 /\ IsPrefix(dir, r)}}

\* The subtree at p, by path relative to p.
Subtree(f, p) ==
  [r \in {SubSeq(q, Len(p) + 1, Len(q)) : q \in {x \in DOMAIN f : IsPrefix(p, x)}}
     |-> f[p \o r]]

----------------------------------------------------------------------------
(* listFilesRecursive                                                      *)

\* The names of the model in String.prototype.localeCompare order
\* (punctuation before letters, letters without regard to case).
LocaleOrder ==
  << ".git", ".includes", "a", "AGENTS.md", "b", "config", "ext", "h.md",
     "HEAD", "i.txt", "legacy.txt", "main", "n", "oc", "old", "openclaw.json",
     "P.md", "sub", "tpl", "wa", "wb", "workspace", "X.md" >>

TokenRank(t) == CHOOSE i \in 1..Len(LocaleOrder) : LocaleOrder[i] = t

RECURSIVE NameLess(_, _)
NameLess(a, b) ==
  IF a = <<>> THEN b # <<>>
  ELSE IF b = <<>> THEN FALSE
  ELSE IF Head(a) = Head(b) THEN NameLess(Tail(a), Tail(b))
  ELSE TokenRank(Head(a)) < TokenRank(Head(b))

\* entries.sort((a, b) => a.name.localeCompare(b.name))
RECURSIVE SortNames(_)
SortNames(S) ==
  IF S = {} THEN <<>>
  ELSE LET m == CHOOSE x \in S : \A y \in S \ {x} : NameLess(x, y)
       IN <<m>> \o SortNames(S \ {m})

RECURSIVE Walk(_, _, _)
RECURSIVE WalkEntries(_, _, _, _)
WalkEntries(f, currentDir, relativeDir, names) ==
  IF names = <<>> THEN <<>>
  ELSE LET name == Head(names)
           absolutePath == Append(currentDir, name)
           relativePath == IF relativeDir # <<>>
                           THEN relativeDir \o <<Sep>> \o name ELSE name
           here == IF f[absolutePath].kind = "dir"
                   THEN Walk(f, absolutePath, relativePath)
                   ELSE << [absolutePath |-> absolutePath,
                            relativePath |-> relativePath] >>
       IN here \o WalkEntries(f, currentDir, relativeDir, Tail(names))

Walk(f, currentDir, relativeDir) ==
  WalkEntries(f, currentDir, relativeDir, SortNames(Readdir(f, currentDir)))

\* A variant that yields the files of the root directory before those of
\* its subdirectories.
listFilesRecursiveFilesFirst(f, rootDir) ==
  LET InRoot(file) == Sep \notin Range(file.relativePath)
      Deeper(file) == Sep \in Range(file.relativePath)
  IN SelectSeq(Walk(f, rootDir, <<>>), InRoot) \o SelectSeq(Walk(f, rootDir, <<>>), Deeper)

listFilesRecursive(f, rootDir) == Walk(f, rootDir, <<>>)

----------------------------------------------------------------------------
(* markdown-include, as bin/openclaw-templates.js uses it                  *)

MaxIncludeDepth == 3

\* markdownInclude.findIncludeTags(rawData).length > 0
hasActiveIncludeTags(data) == \E i \in 1..Len(data) : data[i].k = "inc"

\* The compile of a content in the directory cwd: every include tag is
\* replaced by the compile of the file it names, read relative to cwd.  A
\* tag that names no readable file (or a nesting deeper than fuel) fails.
RECURSIVE CompileData(_, _, _, _)
CompileData(f, sourceDir, data, fuel) ==
  IF data = <<>> THEN [ok |-> TRUE, data |-> <<>>]
  ELSE LET line == Head(data)
           rest == CompileData(f, sourceDir, Tail(data), fuel)
       IN IF line.k = "txt"
          THEN [ok |-> rest.ok, data |-> <<line>> \o rest.data]
          ELSE LET target == IF IsAbsolute(line.v) THEN Canon(line.v)
                             ELSE Canon(Joined(PathStr(sourceDir), line.v))
                   sub == IF fuel > 0 /\ IsFile(f, target)
                          THEN CompileData(f, sourceDir, f[target].data, fuel - 1)
                          ELSE [ok |-> FALSE, data |-> <<>>]
               IN [ok |-> sub.ok /\ rest.ok, data |-> sub.data \o rest.data]

\* markdownInclude.processFile(sourceFileName) and the read of its
\* parsedData, run in the directory of the source.
markdownIncludeBuild(f, sourceFilePath) ==
  IF ~IsFile(f, sourceFilePath) THEN [ok |-> FALSE, data |-> <<>>]
  ELSE CompileData(f, Front(sourceFilePath), f[sourceFilePath].data, MaxIncludeDepth)

\* process.cwd(): the runtime answers from memory when the process has asked
\* since its last chdir (path.resolve of a relative --templates or
\* --openclaw-dir asks); otherwise the call throws when the directory is gone.
cwdKnown(f, wd) == wd.cached \/ IsDir(f, wd.dir)

\* compileMarkdownFile with the working directory wd of the process: the
\* outcome of the compile and the working directory afterwards.
\* previousCwd = process.cwd(); try { process.chdir(sourceDir); ... }
\* finally { process.chdir(previousCwd) }: a chdir to a directory that is
\* gone throws, and an exception of the finally block replaces the result.
compileMarkdownFile(f, sourceFilePath, wd) ==
  IF ~cwdKnown(f, wd) THEN [ok |-> FALSE, data |-> <<>>, cwd |-> wd]
  ELSE IF ~IsDir(f, Front(sourceFilePath))
  THEN [ok |-> FALSE, data |-> <<>>, cwd |-> [wd EXCEPT !.cached = ~IsDir(f, wd.dir)]]
  ELSE IF ~IsDir(f, wd.dir)
  THEN [ok |-> FALSE, data |-> <<>>,
        cwd |-> [wd EXCEPT !.dir = Front(sourceFilePath), !.cached = FALSE]]
  ELSE [ok |-> markdownIncludeBuild(f, sourceFilePath).ok,
        data |-> markdownIncludeBuild(f, sourceFilePath).data,
        cwd |-> [wd EXCEPT !.cached = FALSE]]

----------------------------------------------------------------------------
(* The command line and the paths it fixes (getInitPaths)                  *)

\* openclawDir and targetDir as resolved from --openclaw-dir / --templates.
openclawDir == <<Sep, "oc">>
targetDir == <<Sep, "tpl">>

openclawConfigPath == Joined(openclawDir, <<"openclaw.json">>)

Main == <<"main">>

\* The content of openclaw.json on disk; the parsed document is the state
\* variable config, and the file parses as long as it holds this content.
ConfigData == <<Txt("openclaw.json")>>

----------------------------------------------------------------------------
(* The agent registry (getAgentEntries)                                    *)

\* workspace.replace(/[\\/]+$/, '')
RECURSIVE normalizeWorkspace(_)
normalizeWorkspace(workspace) ==
  IF workspace # <<>> /\ Last(workspace) \in {Sep, Bsl}
  THEN normalizeWorkspace(Front(workspace))
  ELSE workspace

\* The directory the tests start the command in.
StartDir == <<Sep, "home">>

\* A variant that resolves a relative workspace from the working directory.
toAbsoluteWorkspaceFromCwd(workspace, ocDir) ==
  IF IsAbsolute(workspace) THEN workspace ELSE ResolveJoin(StartDir, workspace)

toAbsoluteWorkspace(workspace, ocDir) ==
  IF IsAbsolute(workspace) THEN workspace ELSE ResolveJoin(ocDir, workspace)

\* getAgentId: the trimmed id when it is a non-empty string.
getAgentId(agent) ==
  IF agent.id.has /\ Trim(agent.id.s) # <<>> THEN Str(Trim(agent.id.s)) ELSE NoStr

\* parseOpenclawConfig: the file must exist and parse.
parseOpenclawConfig(f, cfg) ==
  IF ~Exists(f, Canon(openclawConfigPath)) THEN "ConfigNotFound"
  ELSE IF ~(IsFile(f, Canon(openclawConfigPath))
            /\ f[Canon(openclawConfigPath)].data = ConfigData) THEN "ConfigParseError"
  ELSE IF ~cfg.listIsArray THEN "ConfigShapeError"
  ELSE "ok"

defaultsWorkspaceOf(cfg, ocDir) ==
  IF cfg.defaults.has THEN cfg.defaults.s ELSE Joined(ocDir, <<"workspace">>)

\* A variant that gives the default workspace to every id.
rawWorkspaceOfAnyId(agent, agentId, defaultsWorkspace) ==
  IF agent.workspace.has /\ Trim(agent.workspace.s) # <<>>
  THEN Str(agent.workspace.s)
  ELSE Str(defaultsWorkspace)

\* The workspace string of a list entry: its own, or the default for main.
rawWorkspaceOf(agent, agentId, defaultsWorkspace) ==
  IF agent.workspace.has /\ Trim(agent.workspace.s) # <<>>
  THEN Str(agent.workspace.s)
  ELSE IF agentId.has /\ agentId.s = Main THEN Str(defaultsWorkspace)
  ELSE NoStr

\* A variant without the seenIds check.
pushEntryNoIdCheck(st, agentId, absoluteWorkspace) ==
  IF absoluteWorkspace \in st.seenWorkspaces
  THEN [st EXCEPT !.err = "DuplicateWorkspace"]
  ELSE [err |-> "ok",
        seenIds |-> st.seenIds \cup {agentId},
        seenWorkspaces |-> st.seenWorkspaces \cup {absoluteWorkspace},
        entries |-> Append(st.entries, [name |-> agentId, id |-> agentId,
                                        workspace |-> absoluteWorkspace])]

\* The end of the loop body: the duplicate checks and entries.push.
pushEntry(st, agentId, absoluteWorkspace) ==
  IF agentId \in st.seenIds THEN [st EXCEPT !.err = "DuplicateAgentId"]
  ELSE IF absoluteWorkspace \in st.seenWorkspaces
       THEN [st EXCEPT !.err = "DuplicateWorkspace"]
  ELSE [err |-> "ok",
        seenIds |-> st.seenIds \cup {agentId},
        seenWorkspaces |-> st.seenWorkspaces \cup {absoluteWorkspace},
        entries |-> Append(st.entries, [name |-> agentId, id |-> agentId,
                                        workspace |-> absoluteWorkspace])]

\* The loop body for one list entry (the three `continue`s, then the push).
entryStep(st, agent, agentId, rawWorkspace, ocDir) ==
  IF ~agent.obj THEN st
  ELSE IF ~agentId.has THEN st
  ELSE IF ~rawWorkspace.has \/ Trim(rawWorkspace.s) = <<>> THEN st
  ELSE pushEntry(st, agentId.s,
                 toAbsoluteWorkspace(normalizeWorkspace(rawWorkspace.s), ocDir))

\* The loop over agents.list: st carries entries, seenIds, the workspaces
\* seen and the first error.
RECURSIVE EntriesLoop(_, _, _, _)
EntriesLoop(list, defaultsWorkspace, ocDir, st) ==
  IF list = <<>> \/ st.err # "ok" THEN st
  ELSE EntriesLoop(Tail(list), defaultsWorkspace, ocDir,
                   entryStep(st, Head(list), getAgentId(Head(list)),
                             rawWorkspaceOf(Head(list), getAgentId(Head(list)),
                                            defaultsWorkspace),
                             ocDir))

\* A variant without the synthesis of main.
finishEntriesNoMain(parsed, st, absoluteDefaultsWorkspace) ==
  IF parsed # "ok" THEN [err |-> parsed, entries |-> <<>>]
  ELSE IF st.err # "ok" THEN [err |-> st.err, entries |-> <<>>]
  ELSE IF st.entries = <<>> THEN [err |-> "NoValidAgents", entries |-> <<>>]
  ELSE [err |-> "ok", entries |-> st.entries]

\* After the loop: main is synthesized on the default workspace when neither
\* is taken, and an empty registry is an error.
finishEntries(parsed, st, absoluteDefaultsWorkspace) ==
  LET entries ==
        IF absoluteDefaultsWorkspace \notin st.seenWorkspaces /\ Main \notin st.seenIds
        THEN Append(st.entries, [name |-> Main, id |-> Main,
                                 workspace |-> absoluteDefaultsWorkspace])
        ELSE st.entries
  IN IF parsed # "ok" THEN [err |-> parsed, entries |-> <<>>]
     ELSE IF st.err # "ok" THEN [err |-> st.err, entries |-> <<>>]
     ELSE IF entries = <<>> THEN [err |-> "NoValidAgents", entries |-> <<>>]
     ELSE [err |-> "ok", entries |-> entries]

\* getAgentEntries: [err, entries]; err is "ok" or the error it exits on.
getAgentEntries(f, cfg, ocDir) ==
  finishEntries(
    parseOpenclawConfig(f, cfg),
    EntriesLoop(cfg.list, defaultsWorkspaceOf(cfg, ocDir), ocDir,
                [err |-> "ok", seenIds |-> {}, seenWorkspaces |-> {},
                 entries |-> <<>>]),
    toAbsoluteWorkspace(normalizeWorkspace(defaultsWorkspaceOf(cfg, ocDir)), ocDir))

----------------------------------------------------------------------------
(* The target selector (isChildPath, selectBuildTargets)                   *)

\* path.relative(from, to) of two resolved paths, as a string.
RECURSIVE CommonLen(_, _)
CommonLen(p, q) ==
  IF p # <<>> /\ q # <<>> /\ Head(p) = Head(q)
  THEN 1 + CommonLen(Tail(p), Tail(q)) ELSE 0

RECURSIVE RelJoin(_)
RelJoin(segs) ==
  IF segs = <<>> THEN <<>>
  ELSE IF Len(segs) = 1 THEN Head(segs)
  ELSE Head(segs) \o <<Sep>> \o RelJoin(Tail(segs))

PathRelative(from, to) ==
  LET k == CommonLen(from, to)
      ups == [i \in 1..(Len(from) - k) |-> DotDot]
  IN RelJoin(ups \o SubSeq(to, k + 1, Len(to)))

\* A variant without the test for a leading "..".
isChildPathNoEscapeTest(parentDir, childDir) ==
  PathRelative(Canon(parentDir), Canon(childDir)) # <<>>

\* relativePath !== '' && !relativePath.startsWith('..') && !path.isAbsolute(relativePath)
isChildPath(parentDir, childDir) ==
  LET relativePath == PathRelative(Canon(parentDir), Canon(childDir))
  IN /\ relativePath # <<>>
     /\ Head(relativePath) \notin DotDotTokens
     /\ ~IsAbsolute(relativePath)

\* The outside-root refusal for the entries matched by workspace.
refusesOutsideRoot(exactWorkspaceMatches, ocDir) ==
  \E i \in 1..Len(exactWorkspaceMatches) :
     ~isChildPath(ocDir, exactWorkspaceMatches[i].workspace)

\* A variant that tries the ids before the workspace paths.
selectBuildTargetsIdFirst(agentEntries, workspaceArg, ocDir, allowExternalWorkspacePath) ==
  LET arg == workspaceArg.s
      isWorkspacePathSelector ==
        \/ IsAbsolute(arg)
        \/ Sep \in Range(arg)
        \/ \E i \in 1..(Len(arg) - 1) : arg[i] = Bsl /\ arg[i + 1] = Bsl
        \/ Head(arg) \in DotTokens
      ByWorkspace(entry) == normalizeWorkspace(entry.workspace) = normalizeWorkspace(arg)
      ById(entry) == entry.id = normalizeWorkspace(arg)
  IN IF ~workspaceArg.has \/ arg = <<>>
     THEN [err |-> "ok", targets |-> agentEntries]
     ELSE IF Len(SelectSeq(agentEntries, ById)) = 1
     THEN [err |-> "ok", targets |-> SelectSeq(agentEntries, ById)]
     ELSE IF Len(SelectSeq(agentEntries, ByWorkspace)) > 0
     THEN IF /\ isWorkspacePathSelector
             /\ ~allowExternalWorkspacePath
             /\ refusesOutsideRoot(SelectSeq(agentEntries, ByWorkspace), ocDir)
          THEN [err |-> "WorkspaceOutsideRoot", targets |-> <<>>]
          ELSE [err |-> "ok", targets |-> SelectSeq(agentEntries, ByWorkspace)]
     ELSE [err |-> "AgentNotFound", targets |-> <<>>]

\* A variant that builds every agent when the selector matches none.
selectBuildTargetsOrAll(agentEntries, workspaceArg, ocDir, allowExternalWorkspacePath) ==
  LET arg == workspaceArg.s
      isWorkspacePathSelector ==
        \/ IsAbsolute(arg)
        \/ Sep \in Range(arg)
        \/ \E i \in 1..(Len(arg) - 1) : arg[i] = Bsl /\ arg[i + 1] = Bsl
        \/ Head(arg) \in DotTokens
      ByWorkspace(entry) == normalizeWorkspace(entry.workspace) = normalizeWorkspace(arg)
      ById(entry) == entry.id = normalizeWorkspace(arg)
  IN IF ~workspaceArg.has \/ arg = <<>>
     THEN [err |-> "ok", targets |-> agentEntries]
     ELSE IF Len(SelectSeq(agentEntries, ByWorkspace)) > 0
     THEN IF /\ isWorkspacePathSelector
             /\ ~allowExternalWorkspacePath
             /\ refusesOutsideRoot(SelectSeq(agentEntries, ByWorkspace), ocDir)
          THEN [err |-> "WorkspaceOutsideRoot", targets |-> <<>>]
          ELSE [err |-> "ok", targets |-> SelectSeq(agentEntries, ByWorkspace)]
     ELSE IF Len(SelectSeq(agentEntries, ById)) = 1
     THEN [err |-> "ok", targets |-> SelectSeq(agentEntries, ById)]
     ELSE IF Len(SelectSeq(agentEntries, ById)) > 1
     THEN [err |-> "AmbiguousAgentId", targets |-> <<>>]
     ELSE [err |-> "ok", targets |-> agentEntries]

\* A variant that applies the outside-root check to an id match as well.
selectBuildTargetsCheckIds(agentEntries, workspaceArg, ocDir, allowExternalWorkspacePath) ==
  LET arg == workspaceArg.s
      isWorkspacePathSelector ==
        \/ IsAbsolute(arg)
        \/ Sep \in Range(arg)
        \/ \E i \in 1..(Len(arg) - 1) : arg[i] = Bsl /\ arg[i + 1] = Bsl
        \/ Head(arg) \in DotTokens
      ByWorkspace(entry) == normalizeWorkspace(entry.workspace) = normalizeWorkspace(arg)
      ById(entry) == entry.id = normalizeWorkspace(arg)
  IN IF ~workspaceArg.has \/ arg = <<>>
     THEN [err |-> "ok", targets |-> agentEntries]
     ELSE IF Len(SelectSeq(agentEntries, ByWorkspace)) > 0
     THEN IF /\ isWorkspacePathSelector
             /\ ~allowExternalWorkspacePath
             /\ refusesOutsideRoot(SelectSeq(agentEntries, ByWorkspace), ocDir)
          THEN [err |-> "WorkspaceOutsideRoot", targets |-> <<>>]
          ELSE [err |-> "ok", targets |-> SelectSeq(agentEntries, ByWorkspace)]
     ELSE IF Len(SelectSeq(agentEntries, ById)) = 1
     THEN IF ~allowExternalWorkspacePath
             /\ refusesOutsideRoot(SelectSeq(agentEntries, ById), ocDir)
          THEN [err |-> "WorkspaceOutsideRoot", targets |-> <<>>]
          ELSE [err |-> "ok", targets |-> SelectSeq(agentEntries, ById)]
     ELSE IF Len(SelectSeq(agentEntries, ById)) > 1
     THEN [err |-> "AmbiguousAgentId", targets |-> <<>>]
     ELSE [err |-> "AgentNotFound", targets |-> <<>>]

\* selectBuildTargets: [err, targets]; workspaceArg is an optional string.
selectBuildTargets(agentEntries, workspaceArg, ocDir, allowExternalWorkspacePath) ==
  LET arg == workspaceArg.s
      isWorkspacePathSelector ==
        \/ IsAbsolute(arg)
        \/ Sep \in Range(arg)
        \/ \E i \in 1..(Len(arg) - 1) : arg[i] = Bsl /\ arg[i + 1] = Bsl
        \/ Head(arg) \in DotTokens
      ByWorkspace(entry) == normalizeWorkspace(entry.workspace) = normalizeWorkspace(arg)
      ById(entry) == entry.id = normalizeWorkspace(arg)
  IN IF ~workspaceArg.has \/ arg = <<>>
     THEN [err |-> "ok", targets |-> agentEntries]
     ELSE IF Len(SelectSeq(agentEntries, ByWorkspace)) > 0
     THEN IF /\ isWorkspacePathSelector
             /\ ~allowExternalWorkspacePath
             /\ refusesOutsideRoot(SelectSeq(agentEntries, ByWorkspace), ocDir)
          THEN [err |-> "WorkspaceOutsideRoot", targets |-> <<>>]
          ELSE [err |-> "ok", targets |-> SelectSeq(agentEntries, ByWorkspace)]
     ELSE IF Len(SelectSeq(agentEntries, ById)) = 1
     THEN [err |-> "ok", targets |-> SelectSeq(agentEntries, ById)]
     ELSE IF Len(SelectSeq(agentEntries, ById)) > 1
     THEN [err |-> "AmbiguousAgentId", targets |-> <<>>]
     ELSE [err |-> "AgentNotFound", targets |-> <<>>]

----------------------------------------------------------------------------
(* The sync engine's helpers                                               *)

\* clearDirectoryContents: every direct child but ".git" is removed.
RECURSIVE RemoveAll(_, _, _)
RemoveAll(f, dirPath, names) ==
  IF names = {} THEN f
  ELSE LET entry == CHOOSE n \in names : TRUE
       IN RemoveAll(RmRf(f, Append(dirPath, entry)), dirPath, names \ {entry})

GitName == <<".git">>

\* A variant that removes the regular files of the directory and leaves its
\* subdirectories.
clearDirectoryContentsFilesOnly(f, dirPath) ==
  IF ~Exists(f, dirPath) THEN f
  ELSE RemoveAll(f, dirPath, {entry \in Readdir(f, dirPath) :
                                entry # GitName /\ IsFile(f, Append(dirPath, entry))})

clearDirectoryContents(f, dirPath) ==
  IF ~Exists(f, dirPath) THEN f
  ELSE RemoveAll(f, dirPath, {entry \in Readdir(f, dirPath) : entry # GitName})

\* A variant that looks at the first segment only.
pathTouchesGitMetadataFirstSegment(relativePath) ==
  Segments(relativePath) # <<>> /\ Head(Segments(relativePath)) = GitName

\* relativePath.replace(/\\/g, '/').split('/').filter(Boolean).includes('.git')
pathTouchesGitMetadata(relativePath) ==
  LET normalized == [i \in 1..Len(relativePath) |->
                       IF relativePath[i] = Bsl THEN Sep ELSE relativePath[i]]
  IN GitName \in Range(Segments(normalized))

\* fs.copyFileSync(file.absolutePath, destinationPath)
copyFile(f1, src, destinationPath) ==
  IF IsFile(f1, src) /\ WriteOk(f1, destinationPath)
  THEN [fs |-> WriteFile(f1, destinationPath, f1[src].data), result |-> "written"]
  ELSE [fs |-> f1, result |-> "IoError"]

\* A variant that passes over a file whose compilation fails.
writeCompiledSkipFailed(f1, compiled, destinationPath) ==
  IF ~compiled.ok THEN [fs |-> f1, result |-> "skipped", cwd |-> compiled.cwd]
  ELSE IF ~WriteOk(f1, destinationPath)
  THEN [fs |-> f1, result |-> "IoError", cwd |-> compiled.cwd]
  ELSE [fs |-> WriteFile(f1, destinationPath, compiled.data), result |-> "written",
        cwd |-> compiled.cwd]

\* The branch of a markdown file with include tags: compile, then write.
writeCompiled(f1, compiled, destinationPath) ==
  IF ~compiled.ok THEN [fs |-> f1, result |-> "CompileError", cwd |-> compiled.cwd]
  ELSE IF ~WriteOk(f1, destinationPath)
  THEN [fs |-> f1, result |-> "IoError", cwd |-> compiled.cwd]
  ELSE [fs |-> WriteFile(f1, destinationPath, compiled.data), result |-> "written",
        cwd |-> compiled.cwd]

\* A step of the loop body that leaves the working directory wd alone.
Stays(r, wd) == [fs |-> r.fs, result |-> r.result, cwd |-> wd]

\* A variant that copies a file without include tags whether or not the
\* destination exists.
writeTemplateFileAlwaysCopy(f1, file, destinationPath, allowNonIncludeOverwrite, wd) ==
  IF EndsWithMd(file.relativePath) /\ ~IsFile(f1, file.absolutePath)
  THEN [fs |-> f1, result |-> "IoError", cwd |-> wd]
  ELSE IF EndsWithMd(file.relativePath)
          /\ hasActiveIncludeTags(f1[file.absolutePath].data)
  THEN writeCompiled(f1, compileMarkdownFile(f1, file.absolutePath, wd), destinationPath)
  ELSE Stays(copyFile(f1, file.absolutePath, destinationPath), wd)

\* The loop body once the destination directory exists (f1): compile and
\* write, copy, or skip.
writeTemplateFile(f1, file, destinationPath, allowNonIncludeOverwrite, wd) ==
  IF EndsWithMd(file.relativePath) /\ ~IsFile(f1, file.absolutePath)
  THEN [fs |-> f1, result |-> "IoError", cwd |-> wd]
  ELSE IF EndsWithMd(file.relativePath)
          /\ hasActiveIncludeTags(f1[file.absolutePath].data)
  THEN writeCompiled(f1, compileMarkdownFile(f1, file.absolutePath, wd), destinationPath)
  ELSE IF ~Exists(f1, destinationPath) \/ allowNonIncludeOverwrite
  THEN Stays(copyFile(f1, file.absolutePath, destinationPath), wd)
  ELSE [fs |-> f1, result |-> "skipped", cwd |-> wd]

\* The loop body from the destination path on: mkdirSync of its directory.
processFileAt(f, file, destinationPath, allowNonIncludeOverwrite, wd) ==
  IF ~MkdirOk(f, Front(destinationPath))
  THEN [fs |-> f, result |-> "IoError", cwd |-> wd]
  ELSE writeTemplateFile(Mkdirp(f, Front(destinationPath)), file, destinationPath,
                         allowNonIncludeOverwrite, wd)

\* One template file of one agent (the body of the loop over templateFiles):
\* the filesystem afterwards and "written", "skipped" or the error.
processFile(f, entry, file, allowNonIncludeOverwrite, wd) ==
  IF pathTouchesGitMetadata(file.relativePath)
  THEN [fs |-> f, result |-> "skipped", cwd |-> wd]
  ELSE processFileAt(f, file, Canon(Joined(entry.workspace, file.relativePath)),
                     allowNonIncludeOverwrite, wd)

\* The head of the loop once the template directory is scanned: the
\* creation of the workspace and the wipe.
prepareWorkspace(f, templateFiles, workspace, wipeWorkspaces) ==
  IF templateFiles = <<>>
  THEN [fs |-> f, err |-> "AgentTemplateEmpty", files |-> <<>>]
  ELSE IF ~MkdirOk(f, workspace)
  THEN [fs |-> f, err |-> "IoError", files |-> <<>>]
  ELSE [fs |-> IF wipeWorkspaces
               THEN clearDirectoryContents(Mkdirp(f, workspace), workspace)
               ELSE Mkdirp(f, workspace),
        err |-> "ok", files |-> templateFiles]

\* The head of the loop over agentEntries, the template directory known.
beginAgentIn(f, agentTemplatesDir, workspace, wipeWorkspaces) ==
  IF ~IsDir(f, agentTemplatesDir)
  THEN [fs |-> f, err |-> "AgentTemplateMissing", files |-> <<>>]
  ELSE prepareWorkspace(f, listFilesRecursive(f, agentTemplatesDir), workspace,
                        wipeWorkspaces)

\* The head of the loop over agentEntries: the template directory checks,
\* the scan, the creation of the workspace and the wipe.
beginAgent(f, entry, wipeWorkspaces) ==
  beginAgentIn(f, Canon(Joined(targetDir, entry.name)), Canon(entry.workspace),
               wipeWorkspaces)

\* The checks of the template root and of the shared includes directory.
checkTemplateRoot(f, selected) ==
  IF selected.err # "ok" THEN [err |-> selected.err, targets |-> <<>>]
  ELSE IF ~Exists(f, Canon(targetDir))
  THEN [err |-> "TemplatesNotInitialized", targets |-> selected.targets]
  ELSE IF ~IsDir(f, Canon(Joined(targetDir, <<".includes">>)))
  THEN [err |-> "SharedIncludesMissing", targets |-> selected.targets]
  ELSE [err |-> "ok", targets |-> selected.targets]

\* The selection among the registry, when there is a registry.
selectFrom(registry, c) ==
  IF registry.err # "ok" THEN [err |-> registry.err, targets |-> <<>>]
  ELSE selectBuildTargets(registry.entries, c.arg, openclawDir, c.force)

\* buildCommand up to the loop: the registry, the selection and the checks
\* of the template root and of the shared includes directory.
beginBuild(f, cfg, c) ==
  checkTemplateRoot(f, selectFrom(getAgentEntries(f, cfg, openclawDir), c))

----------------------------------------------------------------------------
(* The configurations, template trees and workspaces the model starts from *)

WsMain == <<Sep, "oc", Sep, "workspace">>
WsA == <<Sep, "oc", Sep, "wa">>
WsB == <<Sep, "oc", Sep, "wb">>
WsSub == <<Sep, "oc", Sep, "wa", Sep, "sub">>
WsExt == <<Sep, "ext">>

Agent(id, workspace) == [obj |-> TRUE, id |-> Str(id), workspace |-> workspace]

Config(defaults, list) == [listIsArray |-> TRUE, defaults |-> defaults, list |-> list]

\* The README's example: main on the default workspace and two agents.
CfgDefault ==
  Config(Str(WsMain), << Agent(Main, NoStr), Agent(<<"a">>, Str(WsA)),
                         Agent(<<"b">>, Str(WsB)) >>)

\* One workspace inside another, the outer agent first; b is written
\* relative to the openclaw directory and with a trailing separator.
CfgNested ==
  Config(Str(WsMain), << Agent(<<"a">>, Str(WsA)),
                         Agent(<<"b">>, Str(<<"wa", Sep, "sub", Sep>>)) >>)

\* The same, the inner agent first.
CfgNestedRev ==
  Config(Str(WsMain), << Agent(<<"b">>, Str(WsSub)), Agent(<<"a">>, Str(WsA)) >>)

\* An agent whose workspace lies outside the openclaw directory.
CfgExternal ==
  Config(Str(WsMain), << Agent(Main, NoStr), Agent(<<"ext">>, Str(WsExt)) >>)

\* An agent whose id is the workspace path of another agent.
CfgIdIsPath ==
  Config(Str(WsB), << Agent(<<"a">>, Str(WsA)), Agent(WsA, Str(WsMain)) >>)

\* defaults.workspace is the empty string: main is synthesized on the
\* openclaw directory itself.
CfgRoot == Config(Str(<<>>), << Agent(<<"a">>, Str(WsA)) >>)

\* Two entries with the same id.
CfgDupId ==
  Config(NoStr, << Agent(<<"a">>, Str(WsA)), Agent(<<" ", "a">>, Str(WsB)) >>)

\* An entry that carries a name beside its id (the registry reads the id).
CfgNamed ==
  Config(Str(WsMain),
         << [obj |-> TRUE, id |-> Str(<<"a">>), name |-> Str(<<"nobody">>),
             workspace |-> Str(WsA)],
            Agent(<<"b">>, Str(WsB)) >>)

Configs ==
  { CfgDefault, CfgNested, CfgNestedRev, CfgExternal, CfgIdIsPath, CfgRoot,
    CfgDupId, CfgNamed }

\* A template tree: the layout of the template root and, for every agent,
\* the files of its directory by relative path and kind ("inc": markdown
\* with an include tag, "bad": with a tag naming no file, "plain": without).
TFile(rel, kind) == [rel |-> rel, kind |-> kind]

TplBasic ==
  { TFile(<<"X.md">>, "inc"), TFile(<<"P.md">>, "plain"),
    TFile(<<"n", Sep, "i.txt">>, "plain") }

TplGit ==
  { TFile(<<"X.md">>, "inc"), TFile(<<".git", Sep, "config">>, "plain"),
    TFile(<<"n", Sep, ".git", Sep, "config">>, "plain"),
    TFile(<<"n", Sep, "i.txt">>, "plain") }

TplNest ==
  { TFile(<<"X.md">>, "inc"), TFile(<<"sub", Sep, "X.md">>, "inc"),
    TFile(<<"P.md">>, "inc"), TFile(<<"sub", Sep, "P.md">>, "plain"),
    TFile(<<"i.txt">>, "plain") }

TplBad ==
  { TFile(<<"AGENTS.md">>, "inc"), TFile(<<"P.md">>, "bad"),
    TFile(<<"X.md">>, "plain") }

Templates ==
  { [layout |-> "ok", files |-> TplBasic], [layout |-> "ok", files |-> TplGit],
    [layout |-> "ok", files |-> TplNest], [layout |-> "ok", files |-> TplBad],
    [layout |-> "ok", files |-> {}], [layout |-> "noIncludes", files |-> TplBasic],
    [layout |-> "noRoot", files |-> {}],
    [layout |-> "lastMissing", files |-> TplBasic],
    [layout |-> "lastEmpty", files |-> TplBasic] }

\* What a workspace holds before the first build, by relative path; kind
\* "file" is a file of the user's, "dir" a directory.
WsUser ==
  { TFile(<<"X.md">>, "file"), TFile(<<"P.md">>, "file"),
    TFile(<<"n", Sep, "i.txt">>, "file"), TFile(<<"sub", Sep, "X.md">>, "file"),
    TFile(<<"sub", Sep, "P.md">>, "file") }

WsGit ==
  { TFile(<<".git", Sep, "HEAD">>, "file"), TFile(<<"legacy.txt">>, "file"),
    TFile(<<"old", Sep, "legacy.txt">>, "file"),
    TFile(<<"n", Sep, ".git", Sep, "HEAD">>, "file") }

WsClash ==
  { TFile(<<"X.md">>, "dir"), TFile(<<"n">>, "file"), TFile(<<"P.md">>, "file") }

Workspaces == { {}, WsUser, WsGit, WsClash }

IncludesFile == Canon(Joined(targetDir, <<".includes", Sep, "h.md">>))

\* The content of the template file rel of agent id.
TemplateData(id, rel, kind) ==
  LET text == [k |-> "txt", v |-> id \o <<":">> \o rel]
      dir == Front(Canon(Joined(Joined(targetDir, id), rel)))
  IN IF kind = "inc" THEN <<text, Inc(PathRelative(dir, IncludesFile))>>
     ELSE IF kind = "bad" THEN <<text, Inc(<<"missing.md">>)>>
     ELSE <<text>>

OldData == <<Txt("old")>>

\* The filesystem that holds openclaw.json alone.
ConfigItem == [path |-> Canon(openclawConfigPath), node |-> FileNode(ConfigData)]

ConfigOnly ==
  (<<>> :> DirNode) @@ (Canon(openclawDir) :> DirNode)
    @@ (ConfigItem.path :> ConfigItem.node)

\* What is on the disk before the first command, as a set of paths with
\* their nodes: openclaw.json, the template tree tpl for the agents of the
\* registry, and ws in every workspace.  In the layouts "lastMissing" and
\* "lastEmpty" the last agent of the registry has no template directory, or
\* an empty one (an agent added to openclaw.json after init).
InitialItems(registry, tpl, ws) ==
  LET withFiles == IF tpl.layout \in {"lastMissing", "lastEmpty"}
                   THEN Range(Front(registry)) ELSE Range(registry)
      withDir == IF tpl.layout = "lastMissing"
                 THEN Range(Front(registry)) ELSE Range(registry)
      tplItems ==
        { [path |-> Canon(Joined(Joined(targetDir, e.name), t.rel)),
           node |-> FileNode(TemplateData(e.name, t.rel, t.kind))]
            : e \in withFiles, t \in tpl.files }
        \cup { [path |-> Canon(Joined(targetDir, e.name)), node |-> DirNode]
                 : e \in withDir }
        \cup (IF tpl.layout = "noIncludes" THEN {}
              ELSE {[path |-> IncludesFile, node |-> FileNode(<<Txt("H")>>)]})
      wsItems ==
        { [path |-> Canon(Joined(e.workspace, w.rel)),
           node |-> IF w.kind = "dir" THEN DirNode ELSE FileNode(OldData)]
            : e \in Range(registry), w \in ws }
  IN {ConfigItem} \cup (IF tpl.layout = "noRoot" THEN {} ELSE tplItems) \cup wsItems

\* The filesystem that holds the items and the directories above them.
InitialFs(items) ==
  [p \in UNION {Prefixes(it.path) : it \in items} |->
     IF \E it \in items : it.path = p /\ it.node.kind = "file"
     THEN (CHOOSE it \in items : it.path = p /\ it.node.kind = "file").node
     ELSE DirNode] @@ << >>

\* The build command lines: the flags and the optional workspace argument.
Selectors ==
  { NoStr, Str(<<"a">>), Str(<<"ext">>), Str(WsA), Str(WsA \o <<Sep>>),
    Str(WsExt), Str(<<"nobody">>) }

Commands ==
  [overwrite : BOOLEAN, wipe : BOOLEAN, force : BOOLEAN, arg : Selectors]

----------------------------------------------------------------------------
(* The state                                                               *)

MaxRuns == 2

VARIABLES
  fs,            \* the filesystem
  config,        \* the parsed openclaw.json
  cmd,           \* the command line of the running (or last) build
  pc,            \* "idle", "agent", "file", "done" or "failed"
  err,           \* the error the build exited on, "ok" if none
  exitCode,      \* the exit code of the last build (0 or 1)
  targets,       \* agentEntries, the selected agents in order
  ai,            \* the index in targets of the agent being built
  files,         \* templateFiles of that agent
  fi,            \* the index in files of the next file
  totalFiles,    \* files written
  skippedFiles,  \* files skipped
  summary,       \* the summary lines printed by this build
  log,           \* history: what the build did with each template file
  fs0,           \* history: the filesystem when the build started
  wiped,         \* history: per agent begun, the filesystem before and after its wipe
  runs,          \* builds started
  prev,          \* history: the previous build's fs0, final fs, log and counts
  cwd            \* the working directory of the process: where it started,
                 \* where it is, and whether the runtime remembers it

vars ==
  << fs, config, cmd, pc, err, exitCode, targets, ai, files, fi, totalFiles,
     skippedFiles, summary, log, fs0, wiped, runs, prev, cwd >>

\* A process started in directory dir.
StartedIn(dir, cached) == [start |-> dir, dir |-> dir, cached |-> cached]

\* Where a command is run from: the openclaw directory, or a directory of
\* the user inside a workspace.
StartDirs == {Canon(openclawDir), Canon(Joined(WsA, <<"old">>))}

NoCmd == [overwrite |-> FALSE, wipe |-> FALSE, force |-> FALSE, arg |-> NoStr]

Init ==
  /\ \E cfg \in Configs, tpl \in Templates, ws \in Workspaces :
       \E registry \in {getAgentEntries(ConfigOnly, cfg, openclawDir).entries} :
         \E items \in {InitialItems(registry, tpl, ws)} :
           /\ config = cfg
           /\ fs = InitialFs(items)
  /\ cmd = NoCmd
  /\ pc = "idle"
  /\ err = "ok"
  /\ exitCode = 0
  /\ targets = <<>>
  /\ ai = 0
  /\ files = <<>>
  /\ fi = 0
  /\ totalFiles = 0
  /\ skippedFiles = 0
  /\ summary = <<>>
  /\ log = <<>>
  /\ fs0 = fs
  /\ wiped = <<>>
  /\ runs = 0
  /\ prev = <<>>
  /\ cwd = StartedIn(Canon(openclawDir), FALSE)

----------------------------------------------------------------------------
(* buildCommand, step by step                                              *)

\* process.exit(1), or an uncaught exception: the build stops where it is.
Exit(kind) ==
  /\ pc' = "failed"
  /\ err' = kind
  /\ exitCode' = 1

\* The command starts: registry, selection and the checks before the loop.
Start(c) ==
  \E b \in {beginBuild(fs, config, c)} :
     /\ cmd' = c
     /\ runs' = runs + 1
     /\ fs0' = fs
     /\ log' = <<>>
     /\ wiped' = <<>>
     /\ summary' = <<>>
     /\ totalFiles' = 0
     /\ skippedFiles' = 0
     /\ files' = <<>>
     /\ fi' = 0
     /\ targets' = b.targets
     /\ IF b.err # "ok"
        THEN Exit(b.err) /\ ai' = 0
        ELSE pc' = "agent" /\ ai' = 1 /\ err' = "ok" /\ exitCode' = 0
     /\ \E dir \in StartDirs, cached \in BOOLEAN :
          /\ IsDir(fs, dir)
          /\ cwd' = StartedIn(dir, cached)
     /\ UNCHANGED <<fs, config>>

\* build [workspace] [--overwrite] [--wipe] [--force]
BuildStart ==
  /\ pc = "idle"
  /\ prev' = prev
  /\ \E c \in Commands : Start(c)

\* The same command line run again after a build that succeeded.
BuildAgain ==
  /\ pc = "done"
  /\ runs < MaxRuns
  /\ prev' = << [fs0 |-> fs0, fs |-> fs, log |-> log, cmd |-> cmd,
                 totalFiles |-> totalFiles, skippedFiles |-> skippedFiles] >>
  /\ Start(cmd)

\* The next agent: its template directory is checked and scanned, its
\* workspace created and, with --wipe, cleared.
AgentBegin ==
  /\ pc = "agent"
  /\ ai <= Len(targets)
  /\ \E a \in {beginAgent(fs, targets[ai], cmd.wipe)} :
        /\ fs' = a.fs
        /\ files' = a.files
        /\ IF a.err # "ok"
           THEN Exit(a.err) /\ fi' = 0 /\ wiped' = wiped
           ELSE /\ pc' = "file" /\ fi' = 1
                /\ wiped' = Append(wiped, [agent |-> ai, before |-> fs, after |-> a.fs])
                /\ UNCHANGED <<err, exitCode>>
  /\ UNCHANGED << config, cmd, targets, ai, totalFiles, skippedFiles, summary,
                  log, fs0, runs, prev, cwd >>

\* The next template file of the agent.
FileStep ==
  /\ pc = "file"
  /\ fi <= Len(files)
  /\ \E r \in {processFile(fs, targets[ai], files[fi], cmd.overwrite, cwd)} :
        /\ fs' = r.fs
        /\ cwd' = r.cwd
        /\ totalFiles' = IF r.result = "written" THEN totalFiles + 1 ELSE totalFiles
        /\ skippedFiles' = IF r.result = "skipped" THEN skippedFiles + 1 ELSE skippedFiles
        /\ log' = Append(log, [agent |-> ai, file |-> files[fi], result |-> r.result])
        /\ IF r.result \notin {"written", "skipped"}
           THEN Exit(r.result) /\ UNCHANGED <<ai, fi>>
           ELSE /\ UNCHANGED <<err, exitCode>>
                /\ IF fi < Len(files)
                   THEN pc' = "file" /\ fi' = fi + 1 /\ ai' = ai
                   ELSE pc' = "agent" /\ fi' = 0 /\ ai' = ai + 1
  /\ UNCHANGED <<config, cmd, targets, files, summary, fs0, wiped, runs, prev>>

\* A variant that reports the number of agents of the registry.
BuildEndCountsRegistry ==
  /\ pc = "agent"
  /\ ai > Len(targets)
  /\ pc' = "done"
  /\ summary' = Append(summary, [built |-> totalFiles,
                                 workspaces |-> Len(getAgentEntries(fs, config, openclawDir).entries),
                                 skipped |-> skippedFiles])
  /\ UNCHANGED << fs, config, cmd, err, exitCode, targets, ai, files, fi,
                  totalFiles, skippedFiles, log, fs0, wiped, runs, prev, cwd >>

\* After the last agent: the summary line, exit code 0.
BuildEnd ==
  /\ pc = "agent"
  /\ ai > Len(targets)
  /\ pc' = "done"
  /\ summary' = Append(summary, [built |-> totalFiles, workspaces |-> Len(targets),
                                 skipped |-> skippedFiles])
  /\ UNCHANGED << fs, config, cmd, err, exitCode, targets, ai, files, fi,
                  totalFiles, skippedFiles, log, fs0, wiped, runs, prev, cwd >>

Next == BuildStart \/ BuildAgain \/ AgentBegin \/ FileStep \/ BuildEnd

Spec == Init /\ [][Next]_vars

----------------------------------------------------------------------------
(* The templates shipped with the package (getInitPaths) and the helpers   *)
(* of init, pull-agents and doctor that read them                          *)

templatesRoot == <<Sep, "pkg", Sep, "templates">>
baseTemplatesDir == Joined(templatesRoot, <<".base">>)
includesTemplatesDir == Joined(templatesRoot, <<".includes">>)

\* The entrypoint templates of the package as the model has them: two
\* markdown files, and beside them a file that is not markdown.
BaseData(name) == <<[k |-> "txt", v |-> <<"base", ":">> \o name]>>

PackageItems ==
  { [path |-> Canon(Joined(baseTemplatesDir, <<"AGENTS.md">>)),
     node |-> FileNode(BaseData(<<"AGENTS.md">>))],
    [path |-> Canon(Joined(baseTemplatesDir, <<"P.md">>)),
     node |-> FileNode(BaseData(<<"P.md">>))],
    [path |-> Canon(Joined(baseTemplatesDir, <<"i.txt">>)),
     node |-> FileNode(BaseData(<<"i.txt">>))],
    [path |-> Canon(Joined(includesTemplatesDir, <<"h.md">>)),
     node |-> FileNode(<<Txt("H")>>)] }

\* getEntrypointTemplateFiles: the names of the regular .md files directly
\* in baseTemplatesDir, or the error it exits on.
getEntrypointTemplateFiles(f, baseDir) ==
  IF ~Exists(f, baseDir) THEN [err |-> "BaseTemplatesMissing", names |-> {}]
  ELSE IF {n \in Readdir(f, baseDir) : IsFile(f, Append(baseDir, n)) /\ EndsWithMd(n)} = {}
  THEN [err |-> "NoEntrypointTemplates", names |-> {}]
  ELSE [err |-> "ok",
        names |-> {n \in Readdir(f, baseDir) :
                     IsFile(f, Append(baseDir, n)) /\ EndsWithMd(n)}]

\* assertIncludesTemplatesDir
assertIncludesTemplatesDir(f, includesDir) ==
  IF Exists(f, includesDir) THEN "ok" ELSE "IncludesTemplatesMissing"

\* What init, pull-agents and doctor do first: the registry, the entrypoint
\* templates and the includes of the package; the first error wins.
loadInputs(registry, entrypoints, includes) ==
  [err |-> IF registry.err # "ok" THEN registry.err
           ELSE IF entrypoints.err # "ok" THEN entrypoints.err
           ELSE includes,
   entries |-> registry.entries,
   names |-> entrypoints.names]

commandInputs(f, cfg) ==
  loadInputs(getAgentEntries(f, cfg, openclawDir),
             getEntrypointTemplateFiles(f, Canon(baseTemplatesDir)),
             assertIncludesTemplatesDir(f, Canon(includesTemplatesDir)))

----------------------------------------------------------------------------
(* doctor                                                                  *)

\* The list entries doctor counts as skipped: not an object, or without a
\* workspace of their own unless the id is main.
invalidWorkspaceCount(list) ==
  Cardinality({i \in 1..Len(list) :
                 \/ ~list[i].obj
                 \/ /\ ~(list[i].workspace.has /\ Trim(list[i].workspace.s) # <<>>)
                    /\ getAgentId(list[i]) # Str(Main)})

\* The configurations doctor is run on: every list of at most MaxList
\* entries drawn from EntryShapes, under each of DefaultsShapes.
MaxList == 3

EntryShapes ==
  { [obj |-> FALSE, id |-> NoStr, workspace |-> NoStr],
    [obj |-> TRUE, id |-> NoStr, workspace |-> Str(WsA)],
    [obj |-> TRUE, id |-> Str(<<" ">>), workspace |-> Str(WsB)],
    Agent(<<"a">>, Str(WsA)),
    Agent(<<" ", "a", " ">>, Str(WsB)),
    Agent(<<"a">>, NoStr),
    Agent(<<"b">>, Str(<<"wa">>)),
    Agent(<<"b">>, Str(WsA \o <<Sep, Sep>>)),
    Agent(<<"b">>, Str(<<Sep, "oc", Sep, ".", Sep, "wa">>)),
    Agent(<<"b">>, Str(<<" ">>)),
    Agent(Main, NoStr),
    Agent(<<"b">>, Str(WsMain)) }

DefaultsShapes ==
  { NoStr, Str(<<>>), Str(<<"wa", Sep>>), Str(<<Sep, "oc", Sep, ".", Sep, "workspace">>) }

DoctorConfigs ==
  { Config(d, l) : d \in DefaultsShapes,
                   l \in UNION {[1..n -> EntryShapes] : n \in 0..MaxList} }

\* The build's variables, which the other commands leave alone.
buildVars == <<ai, files, fi, totalFiles, skippedFiles, log, wiped, prev, cwd>>

NoBuild ==
  /\ ai = 0
  /\ files = <<>>
  /\ fi = 0
  /\ totalFiles = 0
  /\ skippedFiles = 0
  /\ log = <<>>
  /\ wiped = <<>>
  /\ prev = <<>>
  /\ cwd = StartedIn(Canon(openclawDir), FALSE)

InitDoctor ==
  /\ config \in DoctorConfigs
  /\ fs = InitialFs({ConfigItem} \cup PackageItems)
  /\ cmd = NoCmd
  /\ pc = "idle"
  /\ err = "ok"
  /\ exitCode = 0
  /\ targets = <<>>
  /\ summary = <<>>
  /\ fs0 = fs
  /\ runs = 0
  /\ NoBuild

\* doctor: the configuration is parsed, the registry derived and the
\* package templates checked; it prints its counts or exits 1.
Doctor ==
  /\ pc = "idle"
  /\ \E d \in {commandInputs(fs, config)} :
       /\ targets' = d.entries
       /\ IF d.err # "ok"
          THEN Exit(d.err) /\ summary' = <<>>
          ELSE /\ pc' = "done"
               /\ err' = "ok"
               /\ exitCode' = 0
               /\ summary' = << [agentsFound |-> Len(d.entries),
                                 entrypointTemplates |-> Cardinality(d.names),
                                 skippedInvalid |-> invalidWorkspaceCount(config.list)] >>
  /\ cmd' = [name |-> "doctor"]
  /\ fs0' = fs
  /\ runs' = runs + 1
  /\ UNCHANGED <<fs, config>>
  /\ UNCHANGED buildVars

NextDoctor == Doctor

SpecDoctor == InitDoctor /\ [][NextDoctor]_vars

----------------------------------------------------------------------------
(* init and pull-agents                                                    *)

\* fs.cpSync(src, dest, {recursive: true}): the tree at src, copied to dest.
cpSync(f, src, dest) ==
  [q \in {dest \o r : r \in DOMAIN Subtree(f, src)} |->
     f[src \o SubSeq(q, Len(dest) + 1, Len(q))]] @@ f

\* The entrypoint templates that are copied into agentTargetDir, in the
\* order of their names: all of them, or those before the first name that
\* is a directory there (copyFileSync throws on it).
copiedEntrypoints(f, names, agentTargetDir) ==
  { n \in names :
      \A m \in names : IsDir(f, Append(agentTargetDir, m)) => NameLess(n, m) }

\* mkdirSync(agentTargetDir) and the copyFileSync loop over the entrypoint
\* templates; st carries the filesystem, the first error and addedAgents.
addAgentDirectory(st, names, baseDir, agentTargetDir) ==
  IF ~MkdirOk(st.fs, agentTargetDir) THEN [st EXCEPT !.err = "IoError"]
  ELSE [fs |-> [q \in {Append(agentTargetDir, n) :
                         n \in copiedEntrypoints(st.fs, names, agentTargetDir)} |->
                  st.fs[Append(baseDir, Last(q))]]
               @@ Mkdirp(st.fs, agentTargetDir),
        err |-> IF copiedEntrypoints(st.fs, names, agentTargetDir) = names
                THEN "ok" ELSE "IoError",
        added |-> st.added + 1]

\* initCommand, the loop over agentNames.
RECURSIVE initAgents(_, _, _, _)
initAgents(st, agentNames, names, baseDir) ==
  IF agentNames = <<>> \/ st.err # "ok" THEN st
  ELSE initAgents(addAgentDirectory(st, names, baseDir,
                                    Canon(Joined(targetDir, Head(agentNames)))),
                  Tail(agentNames), names, baseDir)

\* getAgentNames
getAgentNames(entries) == [i \in 1..Len(entries) |-> entries[i].name]

\* initCommand after its inputs are loaded (d): the check of the target
\* directory, its removal under --force, .includes and the agent
\* directories.
initCommand(f, d, force) ==
  IF d.err # "ok" THEN [fs |-> f, err |-> d.err, added |-> 0]
  ELSE IF Exists(f, Canon(targetDir)) /\ ~force
  THEN [fs |-> f, err |-> "TargetDirExists", added |-> 0]
  ELSE initAgents([fs |-> cpSync(Mkdirp(RmRf(f, Canon(targetDir)), Canon(targetDir)),
                                 Canon(includesTemplatesDir),
                                 Canon(Joined(targetDir, <<".includes">>))),
                   err |-> "ok", added |-> 0],
                  getAgentNames(d.entries), d.names, Canon(baseTemplatesDir))

\* The body of the loop of updateCommand for one agent directory.
pullAgent(st, names, baseDir, agentTargetDir) ==
  IF Exists(st.fs, agentTargetDir)
  THEN IF ~IsDir(st.fs, agentTargetDir)
       THEN [st EXCEPT !.err = "AgentPathNotDirectory"]
       ELSE st
  ELSE addAgentDirectory(st, names, baseDir, agentTargetDir)

\* updateCommand, the loop over agentNames.
RECURSIVE pullAgents(_, _, _, _)
pullAgents(st, agentNames, names, baseDir) ==
  IF agentNames = <<>> \/ st.err # "ok" THEN st
  ELSE pullAgents(pullAgent(st, names, baseDir,
                            Canon(Joined(targetDir, Head(agentNames)))),
                  Tail(agentNames), names, baseDir)

\* updateCommand after its inputs are loaded (d): the check of the target
\* directory, .includes when it is missing, and the agent directories that
\* are missing.
updateCommand(f, d) ==
  IF d.err # "ok" THEN [fs |-> f, err |-> d.err, added |-> 0]
  ELSE IF ~IsDir(f, Canon(targetDir))
  THEN [fs |-> f, err |-> "TemplatesDirNotFound", added |-> 0]
  ELSE pullAgents([fs |-> IF Exists(f, Canon(Joined(targetDir, <<".includes">>)))
                          THEN f
                          ELSE cpSync(f, Canon(includesTemplatesDir),
                                      Canon(Joined(targetDir, <<".includes">>))),
                   err |-> "ok", added |-> 0],
                  getAgentNames(d.entries), d.names, Canon(baseTemplatesDir))

\* The configurations init and pull-agents are run on.
CfgOne == Config(NoStr, << Agent(<<"a">>, Str(WsA)) >>)

\* An id that path.join takes out of the template directory, and one that
\* it takes into the directory of another agent.
CfgIdEscapes ==
  Config(Str(WsMain), << Agent(<<"a">>, Str(WsA)),
                         Agent(<<"..", Sep, "x">>, Str(WsB)) >>)

CfgIdNested ==
  Config(Str(WsMain), << Agent(<<"a", Sep, "x">>, Str(WsB)),
                         Agent(<<"a">>, Str(WsA)) >>)

TemplateConfigs == {CfgOne, CfgDefault, CfgDupId, CfgIdEscapes, CfgIdNested}

\* What the template directory holds before the first command: nothing
\* (it does not exist), or the remains of an earlier init with a file of the
\* user's in it.
EditedData == <<Txt("edited")>>

OldTemplateItems ==
  { [path |-> Canon(Joined(targetDir, <<"a", Sep, "AGENTS.md">>)),
     node |-> FileNode(EditedData)],
    [path |-> Canon(Joined(targetDir, <<"old", Sep, "legacy.txt">>)),
     node |-> FileNode(OldData)],
    [path |-> Canon(Joined(targetDir, <<"legacy.txt">>)),
     node |-> FileNode(OldData)] }

TemplateLayouts == { {}, OldTemplateItems }

\* The commands and edits of one behaviour.
MaxSteps == 4

InitTemplates ==
  /\ config \in TemplateConfigs
  /\ \E old \in TemplateLayouts : fs = InitialFs({ConfigItem} \cup PackageItems \cup old)
  /\ cmd = [name |-> "none", force |-> FALSE]
  /\ pc = "idle"
  /\ err = "ok"
  /\ exitCode = 0
  /\ targets = <<>>
  /\ summary = <<>>
  /\ fs0 = fs
  /\ runs = 0
  /\ NoBuild

\* The end of a command: the exit code, and what the histories keep of it.
Finish(name, force, d, r) ==
  /\ fs' = r.fs
  /\ err' = r.err
  /\ exitCode' = IF r.err = "ok" THEN 0 ELSE 1
  /\ pc' = IF r.err = "ok" THEN "done" ELSE "failed"
  /\ cmd' = [name |-> name, force |-> force]
  /\ targets' = d.entries
  /\ summary' = IF r.err = "ok" /\ name = "pull-agents"
                THEN <<[added |-> r.added]>> ELSE <<>>
  /\ fs0' = fs
  /\ runs' = runs + 1
  /\ UNCHANGED config
  /\ UNCHANGED buildVars

\* init [--force]
InitCmd ==
  /\ runs < MaxSteps
  /\ \E force \in BOOLEAN :
       \E d \in {commandInputs(fs, config)} :
         \E r \in {initCommand(fs, d, force)} : Finish("init", force, d, r)

\* pull-agents
PullAgents ==
  /\ runs < MaxSteps
  /\ \E d \in {commandInputs(fs, config)} :
       \E r \in {updateCommand(fs, d)} : Finish("pull-agents", FALSE, d, r)

\* What the user does between two commands.
UserStep(name, f) ==
  /\ fs' = f
  /\ cmd' = [name |-> name, force |-> FALSE]
  /\ pc' = "idle"
  /\ err' = "ok"
  /\ exitCode' = 0
  /\ fs0' = fs
  /\ runs' = runs + 1
  /\ UNCHANGED <<targets, summary>>
  /\ UNCHANGED buildVars

\* The user edits a file of the template directory, adds a file to a
\* directory of it, or removes an entry of it.
EditTemplate ==
  /\ runs < MaxSteps
  /\ IsDir(fs, Canon(targetDir))
  /\ \/ \E q \in DOMAIN fs :
          /\ IsFile(fs, q) /\ IsPrefix(Canon(targetDir), q)
          /\ fs[q].data # EditedData
          /\ UserStep("edit", WriteFile(fs, q, EditedData))
     \/ \E q \in DOMAIN fs :
          /\ IsDir(fs, q) /\ IsPrefix(Canon(targetDir), q)
          /\ ~Exists(fs, Append(q, <<"notes.md">>))
          /\ UserStep("edit", WriteFile(fs, Append(q, <<"notes.md">>), EditedData))
     \/ \E n \in Readdir(fs, Canon(targetDir)) :
          UserStep("edit", RmRf(fs, Append(Canon(targetDir), n)))
  /\ UNCHANGED config

\* The user changes openclaw.json.
ChangeConfig ==
  /\ runs < MaxSteps
  /\ \E cfg \in TemplateConfigs \ {config} : config' = cfg
  /\ UserStep("config", fs)

NextTemplates == InitCmd \/ PullAgents \/ EditTemplate \/ ChangeConfig

SpecTemplates == InitTemplates /\ [][NextTemplates]_vars

----------------------------------------------------------------------------
(* The path functions on their own                                         *)

\* The strings the path functions are applied to: the strings of at most
\* MaxPathLen of these tokens.
MaxPathLen == 4

PathTokens == {Sep, Bsl, ".", "..", "..cache", "oc", "wa"}

\* Two tokens of dots side by side would read as another token.
PathStrings ==
  { s \in UNION {[1..n -> PathTokens] : n \in 0..MaxPathLen} :
      \A i \in 1..(Len(s) - 1) : ~(s[i] \in DotTokens /\ s[i + 1] \in DotTokens) }

\* The openclaw directories: the one of the model, and the root directory.
PathRoots == {openclawDir, <<Sep>>}

InitPaths ==
  /\ cmd \in {[name |-> "path", s |-> s, root |-> r] : s \in PathStrings, r \in PathRoots}
  /\ config = CfgDefault
  /\ fs = ConfigOnly
  /\ pc = "idle"
  /\ err = "ok"
  /\ exitCode = 0
  /\ targets = <<>>
  /\ summary = <<>>
  /\ fs0 = fs
  /\ runs = 0
  /\ NoBuild

\* The end of an application: the result is kept in summary.
Applied(name, result) ==
  /\ pc' = name
  /\ summary' = <<result>>
  /\ UNCHANGED <<fs, config, cmd, err, exitCode, targets, fs0, runs>>
  /\ UNCHANGED buildVars

\* getAgentEntries, lines 150-151: the workspace string is normalized and
\* made absolute.
ResolveWorkspace ==
  /\ pc = "idle"
  /\ Applied("resolved",
             [normalized |-> normalizeWorkspace(cmd.s),
              absolute |-> toAbsoluteWorkspace(normalizeWorkspace(cmd.s), cmd.root)])

\* selectBuildTargets, line 406: is the workspace below the openclaw
\* directory?
TestChild ==
  /\ pc = "idle"
  /\ IsAbsolute(cmd.s)
  /\ Applied("tested", [child |-> isChildPath(cmd.root, cmd.s)])

NextPaths == ResolveWorkspace \/ TestChild

SpecPaths == InitPaths /\ [][NextPaths]_vars

----------------------------------------------------------------------------
(* What the history variables say about the running build                  *)

LogEntries == {log[i] : i \in 1..Len(log)}

Rel(e) == e.file.relativePath

Src(e) == e.file.absolutePath

\* The destination of a logged template file.
Dest(e) == Canon(Joined(targets[e.agent].workspace, Rel(e)))

\* The logged file was a template file when the build started.
InTemplate0(e) == IsFile(fs0, Src(e))

\* The relative path has a segment that is exactly ".git".
HasGitSegment(rel) ==
  \E i \in 1..Len(Segments(rel)) : Segments(rel)[i] = <<".git">>

\* A markdown template file that held an active include tag at the start.
ActiveIncludes(e) ==
  /\ IsFile(fs0, Src(e))
  /\ Last(Rel(e)) \in MdTokens
  /\ \E i \in 1..Len(fs0[Src(e)].data) : fs0[Src(e)].data[i].k = "inc"

\* The registry the build derived from the configuration.
Registry == getAgentEntries(fs0, config, openclawDir)

\* The workspace lies outside the openclaw directory.
OutsideRoot(workspace) == ~IsPrefix(Canon(openclawDir), Canon(workspace))

\* The .git entry at the root of the workspace of the i-th selected agent.
GitDir(i) == Append(Canon(targets[i].workspace), <<".git">>)

----------------------------------------------------------------------------
(* The claims                                                              *)

\* C1: for every selected agent and every markdown template file with an
\* active include tag and no .git segment, after a successful build the
\* destination holds the compiled output of that template, whatever it held
\* before and whatever --overwrite says, and the file is counted as written.
C1_IncludeFilesAlwaysRewritten ==
  pc = "done" =>
    \A e \in LogEntries :
      (InTemplate0(e) /\ ~HasGitSegment(Rel(e)) /\ ActiveIncludes(e)) =>
        /\ e.result = "written"
        /\ IsFile(fs, Dest(e))
        /\ fs[Dest(e)].data = markdownIncludeBuild(fs0, Src(e)).data

\* C2: in a build without --overwrite and without --wipe, the destination of
\* every template file without active include tags that existed before the
\* build is the same after it, and the file is counted as skipped.
C2_ExistingNonIncludeFilesKept ==
  (pc = "done" /\ ~cmd.overwrite /\ ~cmd.wipe) =>
    \A e \in LogEntries :
      (InTemplate0(e) /\ ~ActiveIncludes(e) /\ Exists(fs0, Dest(e))) =>
        /\ e.result = "skipped"
        /\ Exists(fs, Dest(e))
        /\ fs[Dest(e)] = fs0[Dest(e)]

\* C3: for every template file without active include tags and without a
\* .git segment whose destination was absent, or with --overwrite, after a
\* successful build the destination holds the template's bytes and the file
\* is counted as written.
C3_NonIncludeFilesCopied ==
  pc = "done" =>
    \A e \in LogEntries :
      (/\ InTemplate0(e) /\ ~ActiveIncludes(e) /\ ~HasGitSegment(Rel(e))
       /\ (~Exists(fs0, Dest(e)) \/ cmd.overwrite)) =>
        /\ e.result = "written"
        /\ IsFile(fs, Dest(e))
        /\ fs[Dest(e)].data = fs0[Src(e)].data

\* The second of two successive builds of the same command line, without
\* --overwrite, on a template tree that is as the first build found it.
SecondBuildDone ==
  /\ pc = "done"
  /\ runs >= 2
  /\ ~cmd.overwrite
  /\ Subtree(fs0, Canon(targetDir)) = Subtree(prev[1].fs0, Canon(targetDir))

\* C4 as stated: the second build leaves every destination as the first
\* left it and reports the files without include tags as skipped.
C4_SecondBuildSkips ==
  SecondBuildDone =>
    /\ fs = prev[1].fs
    /\ \A e \in LogEntries : ~ActiveIncludes(e) => e.result = "skipped"

\* C4 as amended: the second build leaves every destination as the first
\* left it; without --wipe it reports the files without include tags as
\* skipped (with --wipe it has cleared them and writes them again).
C4_SecondBuildSkipsUnlessWiped ==
  SecondBuildDone =>
    /\ fs = prev[1].fs
    /\ ~cmd.wipe => \A e \in LogEntries : ~ActiveIncludes(e) => e.result = "skipped"

\* A second build without --wipe that skipped a file the first build wrote
\* and rewrote a file with include tags.
C4_Witness ==
  /\ SecondBuildDone
  /\ ~cmd.wipe
  /\ \E i \in 1..Len(log) :
       /\ ~ActiveIncludes(log[i])
       /\ log[i].result = "skipped"
       /\ i <= Len(prev[1].log)
       /\ prev[1].log[i].result = "written"
  /\ \E e \in LogEntries : ActiveIncludes(e) /\ e.result = "written"

\* C5: in build --wipe, the .git child of every selected agent's workspace
\* and all below it are the same before and after the build, and every
\* other direct child is gone once the agent's wipe is done, which is before
\* any template file of the agent is written.
C5_WipeKeepsRootGit ==
  (pc # "idle" /\ cmd.wipe) =>
    /\ \A i \in 1..Len(targets) : Subtree(fs, GitDir(i)) = Subtree(fs0, GitDir(i))
    /\ \A k \in 1..Len(wiped) :
         Readdir(wiped[k].after, Canon(targets[wiped[k].agent].workspace))
           \subseteq {<<".git">>}
    /\ \A e \in LogEntries : \E k \in 1..Len(wiped) : wiped[k].agent = e.agent

\* C6: no file or directory named .git that existed when a build started
\* is deleted by it, at whatever depth and in whichever workspace.
C6_NoGitEntryDeleted ==
  pc # "idle" =>
    \A p \in DOMAIN fs0 : (p # <<>> /\ Last(p) = <<".git">>) => p \in DOMAIN fs

\* C7: the step of a template file whose relative path has a .git segment,
\* at any depth and whatever the flags, leaves the filesystem as it is (no
\* file written, no directory created), counts the file as skipped and
\* does not fail.
C7_GitTemplateFilesSkipped ==
  [][ (pc = "file" /\ HasGitSegment(files[fi].relativePath)) =>
        /\ fs' = fs
        /\ skippedFiles' = skippedFiles + 1
        /\ totalFiles' = totalFiles
        /\ pc' # "failed" ]_vars

\* A build with --overwrite that has skipped a template file under a nested
\* .git directory, whose destination directory does not exist.
C7_Witness ==
  /\ pc = "done"
  /\ cmd.overwrite
  /\ \E e \in LogEntries :
       /\ HasGitSegment(Rel(e))
       /\ Segments(Rel(e))[1] # <<".git">>
       /\ e.result = "skipped"
       /\ ~Exists(fs, Front(Dest(e)))

\* C8: a build selected by an absolute workspace path that matches a
\* registry entry outside the openclaw directory exits 1 with the
\* workspace-outside-root error and an unchanged filesystem, unless --force
\* is given: then that entry is built and, once the build is done, the
\* template files are under that path.
C8_PathSelectorOutsideRoot ==
  (pc # "idle" /\ cmd.arg.has /\ IsAbsolute(cmd.arg.s) /\ Registry.err = "ok") =>
    \A i \in 1..Len(Registry.entries) :
      LET entry == Registry.entries[i]
      IN (entry.workspace = normalizeWorkspace(cmd.arg.s)
          /\ OutsideRoot(entry.workspace)) =>
           IF cmd.force
           THEN /\ err # "WorkspaceOutsideRoot"
                /\ targets = <<entry>>
                /\ pc = "done" =>
                     /\ LogEntries # {}
                     /\ \A e \in LogEntries :
                          ~HasGitSegment(Rel(e)) =>
                            /\ IsFile(fs, Dest(e))
                            /\ IsPrefix(Canon(entry.workspace), Dest(e))
           ELSE /\ pc = "failed"
                /\ err = "WorkspaceOutsideRoot"
                /\ exitCode = 1
                /\ fs = fs0

\* A forced build by the path of the external workspace that wrote there.
C8_Witness ==
  /\ pc = "done"
  /\ cmd.force
  /\ cmd.arg = Str(WsExt)
  /\ OutsideRoot(targets[1].workspace)
  /\ ~Exists(fs0, Canon(WsExt))
  /\ \E e \in LogEntries : e.result = "written" /\ IsFile(fs, Dest(e))

\* C9: a successful build creates, wipes or writes exactly the workspaces
\* of the selected agents: all registry entries in order without a
\* selector, one entry with a selector; the workspace of an agent that is
\* not selected is as it was, and absent if it was absent.
C9_OnlySelectedWorkspacesTouched ==
  pc = "done" =>
    /\ IF ~cmd.arg.has \/ cmd.arg.s = <<>>
       THEN targets = Registry.entries
       ELSE Len(targets) = 1 /\ targets[1] \in Range(Registry.entries)
    /\ \A i \in 1..Len(targets) : IsDir(fs, Canon(targets[i].workspace))
    /\ \A r \in Range(Registry.entries) :
         r \notin Range(targets) =>
           Subtree(fs, Canon(r.workspace)) = Subtree(fs0, Canon(r.workspace))

\* C10: when the selector, its trailing separators stripped, is the
\* workspace of some entry, the build takes the entries matched by workspace
\* (or refuses them as outside the root) and never goes on to the ids, even
\* when the string is the id of another entry.
C10_WorkspaceMatchFirst ==
  (pc # "idle" /\ cmd.arg.has /\ cmd.arg.s # <<>> /\ Registry.err = "ok") =>
    LET SameWorkspace(entry) == entry.workspace = normalizeWorkspace(cmd.arg.s)
        matches == SelectSeq(Registry.entries, SameWorkspace)
    IN matches # <<>> =>
         /\ err \notin {"AgentNotFound", "AmbiguousAgentId"}
         /\ err # "WorkspaceOutsideRoot" => targets = matches

\* A build selected by a string that is the workspace of the agent built
\* and the id of another agent.
C10_Witness ==
  /\ pc = "done"
  /\ cmd.arg.has
  /\ Len(targets) = 1
  /\ targets[1].workspace = cmd.arg.s
  /\ \E r \in Range(Registry.entries) : r.id = cmd.arg.s /\ r # targets[1]

\* C11: when the selector is the workspace of no entry it is matched
\* against the ids of the registry and against nothing else: with one id
\* match the build takes that entry alone; with none it exits 1 with the
\* agent-not-found error and has touched nothing, also when the selector is
\* the name a list entry carries; with several it exits 1 with the
\* ambiguous-id error.
C11_IdMatchOnly ==
  (pc # "idle" /\ cmd.arg.has /\ cmd.arg.s # <<>> /\ Registry.err = "ok") =>
    LET SameWorkspace(entry) == entry.workspace = normalizeWorkspace(cmd.arg.s)
        SameId(entry) == entry.id = normalizeWorkspace(cmd.arg.s)
        ids == SelectSeq(Registry.entries, SameId)
    IN SelectSeq(Registry.entries, SameWorkspace) = <<>> =>
         IF Len(ids) = 1
         THEN err \notin {"AgentNotFound", "AmbiguousAgentId", "WorkspaceOutsideRoot"}
              /\ targets = ids
         ELSE /\ pc = "failed"
              /\ exitCode = 1
              /\ fs = fs0
              /\ err = IF Len(ids) = 0 THEN "AgentNotFound" ELSE "AmbiguousAgentId"

\* A build refused as agent-not-found whose selector is the name, not the
\* id, of a list entry.
C11_Witness ==
  /\ pc = "failed"
  /\ err = "AgentNotFound"
  /\ \E i \in 1..Len(config.list) :
       /\ "name" \in DOMAIN config.list[i]
       /\ config.list[i].name = cmd.arg
  /\ fs = fs0

----------------------------------------------------------------------------
(* The registry, read off the config                                       *)

\* The command has run.
Ran == pc # "idle"

DefaultRaw == defaultsWorkspaceOf(config, openclawDir)

HasId(agent) == agent.obj /\ agent.id.has /\ Trim(agent.id.s) # <<>>

HasWorkspace(agent) == agent.workspace.has /\ Trim(agent.workspace.s) # <<>>

\* The positions of the list whose entry the registry loop retains.
RetainedAt ==
  { i \in 1..Len(config.list) :
      /\ HasId(config.list[i])
      /\ \/ HasWorkspace(config.list[i])
         \/ Trim(config.list[i].id.s) = Main /\ Trim(DefaultRaw) # <<>> }

IdAt(i) == Trim(config.list[i].id.s)

\* The workspace string of a retained entry.
RawAt(i) ==
  IF HasWorkspace(config.list[i]) THEN config.list[i].workspace.s ELSE DefaultRaw

\* The directory a workspace string names: relative strings lie below the
\* openclaw directory, "." and ".." and repeated or trailing separators
\* resolved.
Directory(w) == Canon(IF IsAbsolute(w) THEN w ELSE Joined(openclawDir, w))

SharedId == \E i, j \in RetainedAt : i # j /\ IdAt(i) = IdAt(j)

SharedDirectory ==
  \E i, j \in RetainedAt : i # j /\ Directory(RawAt(i)) = Directory(RawAt(j))

\* C12 as stated: two list entries with the same id make the command exit 1
\* with the duplicate-agent-id error.
C12_AnyTwoEntriesSharingId ==
  (Ran /\ \E i, j \in 1..Len(config.list) :
             /\ i # j
             /\ config.list[i].obj /\ config.list[j].obj
             /\ config.list[i].id.has /\ config.list[i].id = config.list[j].id)
    => (pc = "failed" /\ exitCode = 1 /\ err = "DuplicateAgentId")

\* C12: two retained list entries with the same trimmed id make the command
\* exit 1 with a duplicate error: the duplicate-agent-id error when no two
\* retained entries name the same workspace directory, and otherwise that
\* or the duplicate-workspace error, whichever the list reaches first.
C12_RetainedEntriesSharingId ==
  (Ran /\ SharedId) =>
    /\ pc = "failed"
    /\ exitCode = 1
    /\ err \in {"DuplicateAgentId", "DuplicateWorkspace"}
    /\ ~SharedDirectory => err = "DuplicateAgentId"

\* Two retained entries share an id, no two share a directory, and the
\* command has failed on the duplicate id.
C12_Witness ==
  /\ Ran
  /\ SharedId
  /\ ~SharedDirectory
  /\ err = "DuplicateAgentId"
  /\ exitCode = 1

\* C13: two retained list entries whose workspaces resolve to the same
\* normalized absolute path make the command exit 1 with the
\* duplicate-workspace error, whether they are written relative or
\* absolute, with or without trailing separators.
C13_SharedDirectoryIsDuplicate ==
  (Ran /\ SharedDirectory /\ ~SharedId) =>
    (pc = "failed" /\ exitCode = 1 /\ err = "DuplicateWorkspace")

\* The absolute workspace strings of the config that are not in resolved
\* form (a "." or ".." segment or a repeated separator inside).
Unresolved(w) == IsAbsolute(w) /\ normalizeWorkspace(w) # PathStr(Canon(w))

UnresolvedInConfig ==
  \/ Unresolved(DefaultRaw)
  \/ \E i \in RetainedAt : Unresolved(RawAt(i))

\* The resolved default workspace, as a directory.
DefaultDirectory == Directory(normalizeWorkspace(DefaultRaw))

\* The registry entries that come from no retained list entry.
Synthesized ==
  { k \in 1..Len(targets) :
      ~\E i \in RetainedAt : /\ targets[k].id = IdAt(i)
                             /\ Directory(targets[k].workspace) = Directory(RawAt(i)) }

MainRetained == \E i \in RetainedAt : IdAt(i) = Main

DefaultRetained == \E i \in RetainedAt : Directory(RawAt(i)) = DefaultDirectory

\* C14: when no retained list entry has the id main and none has the
\* resolved default workspace, the registry holds exactly one synthesized
\* entry, main on the default workspace; when either is present, none.
C14_MainSynthesizedOnce ==
  (Ran /\ err = "ok") =>
    IF ~MainRetained /\ ~DefaultRetained
    THEN /\ Cardinality(Synthesized) = 1
         /\ \A k \in Synthesized :
              /\ targets[k].id = Main
              /\ Directory(targets[k].workspace) = DefaultDirectory
         /\ Cardinality({k \in 1..Len(targets) : targets[k].id = Main}) = 1
    ELSE Synthesized = {}

\* C15: the ids of the registry are pairwise distinct, its workspaces are
\* pairwise distinct directories, and every workspace is a non-empty
\* absolute path.
C15_RegistryKeys ==
  (Ran /\ err = "ok") =>
    /\ \A k, l \in 1..Len(targets) :
         k # l => /\ targets[k].id # targets[l].id
                  /\ Directory(targets[k].workspace) # Directory(targets[l].workspace)
    /\ \A k \in 1..Len(targets) :
         /\ targets[k].id # <<>>
         /\ targets[k].workspace # <<>>
         /\ IsAbsolute(targets[k].workspace)

\* The positions the claim calls kept: an id, and a workspace or the id main.
KeptAt ==
  { i \in 1..Len(config.list) :
      /\ HasId(config.list[i])
      /\ (HasWorkspace(config.list[i]) \/ Trim(config.list[i].id.s) = Main) }

\* The config without the list entries at the positions outside keep.
Without(keep) ==
  [config EXCEPT !.list =
     LET Pick(i) == i \in keep
         picked == SelectSeq([i \in 1..Len(config.list) |-> i], Pick)
     IN [k \in 1..Len(picked) |-> config.list[picked[k]]]]

\* The entries at the positions of keep, and they alone, make the outcome
\* of the command: none of the others raises an error or changes the
\* registry, each of them is in a successful registry with its id and its
\* workspace (the default workspace where it has none), every other
\* registry entry is main on the default workspace, and two of them with
\* one id are an error.
OutcomeComesFrom(keep) ==
  /\ err \in {"ok", "DuplicateAgentId", "DuplicateWorkspace"}
  /\ getAgentEntries(fs0, Without(keep), openclawDir) = [err |-> err, entries |-> targets]
  /\ (\E i, j \in keep : i # j /\ IdAt(i) = IdAt(j)) => err # "ok"
  /\ err = "ok" =>
       /\ \A i \in keep :
            \E k \in 1..Len(targets) :
              /\ targets[k].id = IdAt(i)
              /\ Directory(targets[k].workspace) = Directory(RawAt(i))
       /\ \A k \in 1..Len(targets) :
            \/ \E i \in keep : targets[k].id = IdAt(i)
            \/ targets[k].id = Main /\ Directory(targets[k].workspace) = DefaultDirectory

\* C16 as stated: entries that are no object or have no id are dropped
\* without error, an entry with an id and no workspace is kept exactly when
\* its id is main and then has the default workspace, and the dropped
\* entries take no part in duplicate detection.
C16_MainAlwaysKept == Ran => OutcomeComesFrom(KeptAt)

\* C16: entries that are no object or have no id are dropped without error,
\* an entry with an id and no workspace is kept exactly when its id is main
\* and the default workspace is not blank, and then has the default
\* workspace, and the dropped entries take no part in duplicate detection.
C16_DroppedEntriesIgnored == Ran => OutcomeComesFrom(RetainedAt)

\* A successful registry from a list with a dropped entry that has the id
\* of a retained one, and with a retained main that has no workspace of its
\* own.
C16_Witness ==
  /\ Ran
  /\ err = "ok"
  /\ \E i \in RetainedAt :
       \E j \in (1..Len(config.list)) \ RetainedAt :
         HasId(config.list[j]) /\ IdAt(j) = IdAt(i)
  /\ \E m \in RetainedAt :
       /\ ~HasWorkspace(config.list[m])
       /\ \E k \in 1..Len(targets) :
            /\ targets[k].id = Main
            /\ Directory(targets[k].workspace) = DefaultDirectory

\* C20: a config whose list is an array and has no duplicates gives a
\* registry that is not empty and holds an entry with the id main or an
\* entry on the resolved default workspace; the command never fails for an
\* empty registry.
C20_RegistryNeverEmpty ==
  (Ran /\ config.listIsArray) =>
    /\ err # "NoValidAgents"
    /\ err \notin {"DuplicateAgentId", "DuplicateWorkspace"} =>
         /\ err = "ok"
         /\ targets # <<>>
         /\ \E k \in 1..Len(targets) :
              \/ targets[k].id = Main
              \/ targets[k].workspace =
                   toAbsoluteWorkspace(normalizeWorkspace(DefaultRaw), openclawDir)

\* A list none of whose entries is retained, and a registry of main alone.
C20_Witness ==
  /\ Ran
  /\ config.list # <<>>
  /\ RetainedAt = {}
  /\ err = "ok"
  /\ Len(targets) = 1
  /\ targets[1].id = Main

----------------------------------------------------------------------------
(* Failure of a compilation                                                *)

\* The build stands before a template file with include tags whose
\* compilation fails, and the directory of its destination can be made.
CompileFails ==
  /\ pc = "file"
  /\ fi <= Len(files)
  /\ ~pathTouchesGitMetadata(files[fi].relativePath)
  /\ EndsWithMd(files[fi].relativePath)
  /\ IsFile(fs, files[fi].absolutePath)
  /\ hasActiveIncludeTags(fs[files[fi].absolutePath].data)
  /\ ~compileMarkdownFile(fs, files[fi].absolutePath, cwd).ok
  /\ MkdirOk(fs, Front(Canon(Joined(targets[ai].workspace, files[fi].relativePath))))

\* C17: a compilation that fails ends the build with exit code 1: that step
\* writes no file and wipes nothing, every file written before it stays as
\* it is, and no step follows a failed build, so that no later file and no
\* later agent is written or wiped.
C17_CompileFailureStops ==
  [][ /\ pc # "failed"
      /\ CompileFails =>
           /\ pc' = "failed"
           /\ err' = "CompileError"
           /\ exitCode' = 1
           /\ \A q \in DOMAIN fs : q \in DOMAIN fs' /\ fs'[q] = fs[q]
           /\ \A q \in DOMAIN fs' \ DOMAIN fs : fs'[q] = DirNode
           /\ wiped' = wiped
           /\ totalFiles' = totalFiles
           /\ <<ai', fi'>> = <<ai, fi>>
    ]_vars

\* A build stopped by a compilation after it has written a file, with a
\* file or an agent still to come.
C17_Witness ==
  /\ pc = "failed"
  /\ err = "CompileError"
  /\ exitCode = 1
  /\ \E i \in 1..(Len(log) - 1) :
       /\ log[i].result = "written"
       /\ IsFile(fs, Canon(Joined(targets[log[i].agent].workspace,
                                  log[i].file.relativePath)))
  /\ (fi < Len(files) \/ ai < Len(targets))

----------------------------------------------------------------------------
(* The template directory after init and pull-agents                       *)

TemplateRoot == Canon(targetDir)

\* The directory of the templates of an agent.
AgentDir(id) == Canon(Joined(targetDir, id))

\* The names of the entrypoint templates of the package.
Entrypoints == getEntrypointTemplateFiles(fs0, Canon(baseTemplatesDir)).names

\* dir holds every entrypoint template as the package has it.
HoldsEntrypoints(dir) ==
  /\ IsDir(fs, dir)
  /\ \A n \in Entrypoints :
       /\ IsFile(fs, Append(dir, n))
       /\ fs[Append(dir, n)] = fs0[Append(Canon(baseTemplatesDir), n)]

\* The file at q is an entrypoint template of the package in the directory
\* of an agent of the registry, or a file of the includes of the package.
FreshFile(q) ==
  \/ \E k \in 1..Len(targets) :
       \E n \in Entrypoints :
         /\ q = Append(AgentDir(targets[k].id), n)
         /\ fs[q] = fs0[Append(Canon(baseTemplatesDir), n)]
  \/ /\ IsPrefix(Append(TemplateRoot, <<".includes">>), q)
     /\ fs[q] = fs0[Canon(includesTemplatesDir) \o SubSeq(q, Len(TemplateRoot) + 2, Len(q))]

\* C18: init on a template directory that exists fails with exit code 1
\* and changes nothing when --force is not given; with --force nothing of
\* the old directory survives, and afterwards the directory holds .includes
\* as the package has it and, for every agent of the registry, a directory
\* with the entrypoint templates, and nothing else.
C18_InitOnExistingDirectory ==
  (cmd.name = "init" /\ Exists(fs0, TemplateRoot)) =>
    IF ~cmd.force
    THEN pc = "failed" /\ exitCode = 1 /\ fs = fs0
    ELSE Registry.err = "ok" =>
           /\ pc = "done" /\ exitCode = 0
           /\ \A q \in DOMAIN fs :
                (IsFile(fs, q) /\ IsPrefix(TemplateRoot, q)) => FreshFile(q)
           /\ Subtree(fs, Append(TemplateRoot, <<".includes">>))
                = Subtree(fs0, Canon(includesTemplatesDir))
           /\ \A k \in 1..Len(targets) :
                /\ IsPrefix(TemplateRoot, AgentDir(targets[k].id))
                /\ AgentDir(targets[k].id) # TemplateRoot
                /\ HoldsEntrypoints(AgentDir(targets[k].id))

\* An agent id that path.join takes out of the template directory.
IdEscapes ==
  \E k \in 1..Len(targets) : ~IsPrefix(TemplateRoot, AgentDir(targets[k].id))

\* The agents of the registry that had no directory when the command began.
Missing == {k \in 1..Len(targets) : ~Exists(fs0, AgentDir(targets[k].id))}

\* The path q is new with an agent directory the command had to add, or
\* with .includes where that was missing.
AddedPath(q) ==
  \/ \E k \in Missing :
       \/ q \in Prefixes(AgentDir(targets[k].id))
       \/ \E n \in Entrypoints : q = Append(AgentDir(targets[k].id), n)
  \/ /\ ~Exists(fs0, Append(TemplateRoot, <<".includes">>))
     /\ IsPrefix(Append(TemplateRoot, <<".includes">>), q)

\* C19: pull-agents fails with exit code 1 and changes nothing when the
\* template directory does not exist; otherwise, whatever commands, edits
\* and config changes came before, it leaves everything that exists as it
\* is, gives every agent of the registry that has no directory a directory
\* with the entrypoint templates, adds nothing else, and reports the number
\* of directories it added.
C19_PullAgentsAddsOnly ==
  cmd.name = "pull-agents" =>
    IF ~Exists(fs0, TemplateRoot)
    THEN pc = "failed" /\ exitCode = 1 /\ fs = fs0
    ELSE Registry.err = "ok" =>
           /\ pc = "done" /\ exitCode = 0
           /\ \A q \in DOMAIN fs0 : q \in DOMAIN fs /\ fs[q] = fs0[q]
           /\ \A q \in DOMAIN fs \ DOMAIN fs0 : AddedPath(q)
           /\ \A k \in Missing : HoldsEntrypoints(AgentDir(targets[k].id))
           /\ summary = <<[added |-> Cardinality(Missing)]>>

\* An agent id that path.join takes into the directory of another agent.
IdNested ==
  \E k, l \in 1..Len(targets) :
    /\ k # l
    /\ IsPrefix(AgentDir(targets[k].id), AgentDir(targets[l].id))

----------------------------------------------------------------------------
(* The path functions                                                      *)

Separators == {Sep, Bsl}

\* n is s without its trailing separators.
StrippedOf(n, s) ==
  /\ Len(n) <= Len(s)
  /\ SubSeq(s, 1, Len(n)) = n
  /\ \A i \in (Len(n) + 1)..Len(s) : s[i] \in Separators
  /\ (n # <<>> => Last(n) \notin Separators)

\* a is the normalized string n made absolute: n itself when it is
\* absolute, and otherwise the path that n leads to from the root.
AbsoluteOf(a, n, root) ==
  /\ IsAbsolute(a)
  /\ IsAbsolute(n) => a = n
  /\ ~IsAbsolute(n) =>
       a = PathStr(NormSegs(Segments(n), NormSegs(Segments(root), <<>>)))

\* C21 as stated: normalizeWorkspace removes the trailing separators and
\* nothing else, toAbsoluteWorkspace leaves an absolute string as it is and
\* resolves a relative one from the openclaw directory, and the workspace of
\* a relative string lies in the openclaw directory.
C21_RelativeStaysUnderRoot ==
  pc = "resolved" =>
    /\ StrippedOf(summary[1].normalized, cmd.s)
    /\ AbsoluteOf(summary[1].absolute, summary[1].normalized, cmd.root)
    /\ ~IsAbsolute(summary[1].normalized) =>
         IsPrefix(Canon(cmd.root), Canon(summary[1].absolute))

\* C21: normalizeWorkspace removes the trailing separators and nothing
\* else, toAbsoluteWorkspace leaves an absolute string as it is and resolves
\* a relative one from the openclaw directory, and the workspace of a
\* relative string lies in the openclaw directory when the string has no
\* ".." segment.
C21_RelativeResolvedFromRoot ==
  pc = "resolved" =>
    /\ StrippedOf(summary[1].normalized, cmd.s)
    /\ AbsoluteOf(summary[1].absolute, summary[1].normalized, cmd.root)
    /\ (/\ ~IsAbsolute(summary[1].normalized)
        /\ DotDot \notin Range(Segments(summary[1].normalized))) =>
         IsPrefix(Canon(cmd.root), Canon(summary[1].absolute))

\* A relative string with two trailing separators, resolved from the
\* openclaw directory.
C21_Witness ==
  /\ pc = "resolved"
  /\ cmd.root = openclawDir
  /\ cmd.s = <<"wa", Sep, Bsl>>
  /\ summary[1].normalized = <<"wa">>
  /\ summary[1].absolute = <<Sep, "oc", Sep, "wa">>

\* The directory of candidate lies below the directory of root and is not
\* that directory.
StrictlyBelow(root, candidate) ==
  /\ IsPrefix(Canon(root), Canon(candidate))
  /\ Canon(candidate) # Canon(root)

\* C22: isChildPath(root, candidate) is true exactly when the resolved
\* candidate is a strict descendant of the resolved root: false for the
\* root itself, false for a path that leaves the root through "..", and
\* true for every path below the root, also one whose first segment below
\* the root begins with two dots.
C22_ChildIffStrictlyBelow ==
  pc = "tested" => (summary[1].child <=> StrictlyBelow(cmd.root, cmd.s))

\* The first segment of candidate below root begins with two dots.
DotDotName(root, candidate) ==
  /\ StrictlyBelow(root, candidate)
  /\ Head(Canon(candidate)[Len(Canon(root)) + 1]) \in DotDotTokens

----------------------------------------------------------------------------
(* listFilesRecursive                                                      *)

\* The first position at which the segment sequences p and q differ.
FirstDifference(p, q) == CommonLen(p, q) + 1

\* p comes before q in a depth-first walk that takes the entries of every
\* directory in the order of their names.
WalkedBefore(p, q) ==
  /\ FirstDifference(p, q) <= Len(p)
  /\ FirstDifference(p, q) <= Len(q)
  /\ NameLess(p[FirstDifference(p, q)], q[FirstDifference(p, q)])

\* listing holds every regular file below dir once and nothing else, each
\* with its path relative to dir, in the order of the walk.
ListsFilesOf(listing, dir) ==
  /\ {listing[i].absolutePath : i \in 1..Len(listing)}
       = {q \in DOMAIN fs : IsFile(fs, q) /\ IsPrefix(dir, q)}
  /\ \A i \in 1..Len(listing) :
       Segments(listing[i].relativePath)
         = SubSeq(listing[i].absolutePath, Len(dir) + 1, Len(listing[i].absolutePath))
  /\ \A i, j \in 1..Len(listing) :
       i < j => /\ listing[i].relativePath # listing[j].relativePath
                /\ WalkedBefore(Segments(listing[i].relativePath),
                                Segments(listing[j].relativePath))

\* C23: for the template directory the build has listed, and for every
\* directory before and after a build, listFilesRecursive yields each regular file
\* below it exactly once and no directory, each with the relative path that
\* identifies it, the entries of every directory in the order of their names
\* and a subdirectory walked through at its place; the sequence is a
\* function of the tree.
C23_ListingIsOrderedWalk ==
  /\ pc = "file" =>
       ListsFilesOf(files, Canon(Joined(targetDir, targets[ai].name)))
  /\ pc \in {"idle", "done"} =>
       \A dir \in DOMAIN fs :
         IsDir(fs, dir) => ListsFilesOf(listFilesRecursive(fs, dir), dir)

\* The build has listed a template directory in which the files of a
\* subdirectory come between two files of the directory itself.
C23_Witness ==
  /\ pc = "file"
  /\ files = listFilesRecursive(fs, Canon(Joined(targetDir, targets[ai].name)))
  /\ \E i, j, k \in 1..Len(files) :
       /\ i < j /\ j < k
       /\ Sep \notin Range(files[i].relativePath)
       /\ Sep \in Range(files[j].relativePath)
       /\ Sep \notin Range(files[k].relativePath)

----------------------------------------------------------------------------
(* The working directory                                                   *)

\* C24: the process is in the directory it started in after every call of
\* compileMarkdownFile, whichever way the call ends, and so before and after
\* every build.
C24_WorkingDirectoryRestored == cwd.dir = cwd.start

\* The directory the process started in is gone.
StartDirGone == ~IsDir(fs, cwd.start)

----------------------------------------------------------------------------
(* Preconditions of the build                                              *)

PreconditionErrors ==
  { "TemplatesNotInitialized", "SharedIncludesMissing", "AgentTemplateMissing",
    "AgentTemplateEmpty" }

\* C25: a build that fails on the template root, on the shared includes
\* directory or on the template directory of a selected agent exits with
\* code 1 and has created, wiped and written nothing: the filesystem is the
\* one the build started on.
C25_PreconditionFailureTouchesNothing ==
  (pc = "failed" /\ err \in PreconditionErrors) => (exitCode = 1 /\ fs = fs0)

\* The loop has reached an agent after the first.
LaterAgent == ai > 1

----------------------------------------------------------------------------
(* The outside-root check                                                  *)

\* The selector of the build is the workspace of a registry entry.
MatchedByWorkspace ==
  /\ cmd.arg.has
  /\ cmd.arg.s # <<>>
  /\ \E r \in Range(Registry.entries) : r.workspace = normalizeWorkspace(cmd.arg.s)

\* C26: a build is refused as outside the openclaw directory only when its
\* selector is the workspace path of an entry and --force is absent; a build
\* without --force that has no selector, or whose selector matches an id,
\* is not refused, and once it is done the template files of an agent whose
\* workspace lies outside the openclaw directory are in that workspace.
C26_OutsideRootCheckOnlyForPathMatch ==
  (pc # "idle" /\ Registry.err = "ok") =>
    /\ err = "WorkspaceOutsideRoot" =>
         /\ MatchedByWorkspace
         /\ IsAbsolute(cmd.arg.s)
         /\ ~cmd.force
    /\ (~cmd.force /\ ~MatchedByWorkspace) =>
         /\ err # "WorkspaceOutsideRoot"
         /\ pc = "done" =>
              \A e \in LogEntries :
                (OutsideRoot(targets[e.agent].workspace) /\ ~HasGitSegment(Rel(e))) =>
                  /\ IsFile(fs, Dest(e))
                  /\ IsPrefix(Canon(targets[e.agent].workspace), Dest(e))

\* A build without --force, selected by the id of the agent whose workspace
\* lies outside the openclaw directory, that wrote there.
C26_Witness ==
  /\ pc = "done"
  /\ ~cmd.force
  /\ cmd.arg = Str(<<"ext">>)
  /\ targets # <<>>
  /\ OutsideRoot(targets[1].workspace)
  /\ \E e \in LogEntries :
       /\ e.result = "written"
       /\ IsFile(fs, Dest(e))
       /\ IsPrefix(Canon(WsExt), Dest(e))

----------------------------------------------------------------------------
(* The summary                                                             *)

\* The regular files under the template directory of the i-th selected
\* agent when the build started.
TemplateFilesOf(i) ==
  { q \in DOMAIN fs0 :
      IsFile(fs0, q) /\ IsPrefix(Canon(Joined(targetDir, targets[i].name)), q) }

RECURSIVE TemplateFilesUpTo(_)
TemplateFilesUpTo(n) ==
  IF n = 0 THEN 0 ELSE Cardinality(TemplateFilesOf(n)) + TemplateFilesUpTo(n - 1)

Logged(result) == Cardinality({i \in 1..Len(log) : log[i].result = result})

\* C27: when a build has succeeded, the files it counts as written and as
\* skipped are together all the regular template files of the selected
\* agents, a file with a .git segment being one of the skipped; the summary
\* reports these two counts and the number of selected agents, and it is
\* printed once, after the last agent: a build that is running or has
\* failed has printed none.
C27_SummaryCountsEveryTemplateFile ==
  /\ pc = "done" =>
       /\ summary = << [built |-> totalFiles, workspaces |-> Len(targets),
                        skipped |-> skippedFiles] >>
       /\ ai > Len(targets)
       /\ totalFiles + skippedFiles = TemplateFilesUpTo(Len(targets))
       /\ totalFiles = Logged("written")
       /\ skippedFiles = Logged("skipped")
       /\ \A e \in LogEntries : HasGitSegment(Rel(e)) => e.result = "skipped"
  /\ pc \in {"agent", "file", "failed"} => summary = <<>>

\* A build of several agents that wrote files, skipped an existing file and
\* skipped a file under .git.
C27_Witness ==
  /\ pc = "done"
  /\ summary # <<>>
  /\ Len(targets) > 1
  /\ \E e \in LogEntries : HasGitSegment(Rel(e)) /\ e.result = "skipped"
  /\ \E e \in LogEntries : ~HasGitSegment(Rel(e)) /\ e.result = "skipped"
  /\ \E e \in LogEntries : e.result = "written"

----------------------------------------------------------------------------
(* The wiped workspace                                                     *)

\* The regular files of the workspace of the i-th selected agent that are
\* not under the .git entry at its root.
WorkspaceFiles(i) ==
  { q \in DOMAIN fs :
      /\ IsFile(fs, q)
      /\ IsPrefix(Canon(targets[i].workspace), q)
      /\ ~IsPrefix(GitDir(i), q) }

\* The path of template file q of the i-th selected agent relative to the
\* agent's template directory, as segments.
TemplateRel(i, q) ==
  SubSeq(q, Len(Canon(Joined(targetDir, targets[i].name))) + 1, Len(q))

\* Where the build puts the template files of the i-th selected agent that
\* have no .git segment.
Destinations(i) ==
  { Canon(targets[i].workspace) \o TemplateRel(i, q) :
      q \in {t \in TemplateFilesOf(i) : GitName \notin Range(TemplateRel(i, t))} }

\* C28: after a successful build --wipe of one selected agent, the regular
\* files of its workspace outside the .git entry at its root are exactly the
\* template files of the agent that have no .git segment, at their relative
\* paths.
C28_WipedWorkspaceHoldsTemplatesOnly ==
  (pc = "done" /\ cmd.wipe /\ Len(targets) = 1) =>
    WorkspaceFiles(1) = Destinations(1)

\* A finished build --wipe of one agent whose workspace held files of the
\* user, some under a nested .git, that are gone, and a .git at its root
\* that is kept.
C28_Witness ==
  /\ pc = "done"
  /\ cmd.wipe
  /\ Len(targets) = 1
  /\ IsFile(fs0, Append(Canon(targets[1].workspace), <<"legacy.txt">>))
  /\ ~Exists(fs, Append(Canon(targets[1].workspace), <<"legacy.txt">>))
  /\ ~Exists(fs, Canon(Joined(targets[1].workspace, <<"n", Sep, ".git">>)))
  /\ IsFile(fs, Canon(Joined(targets[1].workspace, <<".git", Sep, "HEAD">>)))
  /\ WorkspaceFiles(1) # {}

----------------------------------------------------------------------------
(* Several agents                                                          *)

\* What the build writes for a logged template file: the compiled output,
\* or the content of the template.
Output(e) ==
  IF ActiveIncludes(e) THEN markdownIncludeBuild(fs0, Src(e)).data
  ELSE fs0[Src(e)].data

\* C29: when a build has succeeded, every template file without a .git
\* segment of every selected agent is at its destination, and a file the
\* build wrote holds what was written: no later agent has deleted or
\* overwritten the output of an earlier one, the workspaces of the registry
\* being pairwise distinct.
C29_EarlierOutputSurvives ==
  pc = "done" =>
    \A e \in LogEntries :
      ~HasGitSegment(Rel(e)) =>
        /\ Exists(fs, Dest(e))
        /\ e.result = "written" =>
             /\ IsFile(fs, Dest(e))
             /\ fs[Dest(e)].data = Output(e)

\* Two selected agents have workspaces one inside the other.
NestedTargets ==
  \E i, j \in 1..Len(targets) :
    /\ i # j
    /\ IsPrefix(Canon(targets[i].workspace), Canon(targets[j].workspace))

----------------------------------------------------------------------------
(* What the build only reads                                               *)

\* The template tree is as it was when the build started.
TemplatesUnchanged ==
  Subtree(fs, Canon(targetDir)) = Subtree(fs0, Canon(targetDir))

\* openclaw.json is as it was when the build started.
ConfigUnchanged ==
  /\ Exists(fs, Canon(openclawConfigPath)) = Exists(fs0, Canon(openclawConfigPath))
  /\ Exists(fs0, Canon(openclawConfigPath)) =>
       fs[Canon(openclawConfigPath)] = fs0[Canon(openclawConfigPath)]

\* C30: at every point of a build, openclaw.json and every file under the
\* template root, .includes among them, are as they were when the build
\* started, whatever workspaces the registry holds.
C30_BuildOnlyReadsConfigAndTemplates == ConfigUnchanged /\ TemplatesUnchanged

\* The workspace of a selected agent is the openclaw directory itself.
RootIsWorkspace ==
  \E i \in 1..Len(targets) : Canon(targets[i].workspace) = Canon(openclawDir)

====
